---- MODULE Spec2Model ----
(***************************************************************************)
(* Model of dcm-bag-validator: the validators of a BagIt bag               *)
(* (payload structure, profile, payload integrity, file integrity, file   *)
(* format).  Strings are sequences of one-character strings, so that path  *)
(* normalisation and regular-expression matching are computed and not      *)
(* assumed.  Short names stand for the long ones of the tests:             *)
(*   r = required_directory, o = optional_directory, f = a file name.      *)
(***************************************************************************)
EXTENDS Integers, Sequences, FiniteSets, TLC

(***************************************************************************)
(* Bounds                                                                  *)
(***************************************************************************)
\* longest Payload-Folders-Allowed list of a profile
MaxAllowed == 1
\* longest Payload-Folders-Required list of a profile
MaxRequired == 1
\* largest number of files in a payload tree
MaxFiles == 2
\* largest number of files in a payload tree of names equal up to letter case
MaxCaseFiles == 3

(***************************************************************************)
(* Strings, pathlib and re                                                 *)
(***************************************************************************)
Digits == {"4"}

\* str.lower() on one character
LowerChar(c) ==
    CASE c = "F" -> "f" [] c = "R" -> "r" [] c = "P" -> "p" [] c = "O" -> "o"
      [] c = "A" -> "a" [] c = "E" -> "e"
      [] OTHER -> c

\* str.lower()
Lower(s) == [i \in 1..Len(s) |-> LowerChar(s[i])]

RECURSIVE SplitFrom(_, _, _)
\* s.split("/") from position i on, cur being the component read so far
SplitFrom(s, i, cur) ==
    IF i > Len(s) THEN <<cur>>
    ELSE IF s[i] = "/" THEN <<cur>> \o SplitFrom(s, i + 1, <<>>)
    ELSE SplitFrom(s, i + 1, Append(cur, s[i]))

RECURSIVE JoinParts(_)
\* "/".join(parts)
JoinParts(parts) ==
    IF Len(parts) = 0 THEN <<>>
    ELSE IF Len(parts) = 1 THEN parts[1]
    ELSE parts[1] \o <<"/">> \o JoinParts(Tail(parts))

\* the root of a posix path: "/", "//" (exactly two slashes) or none
PathRoot(s) ==
    IF Len(s) >= 1 /\ s[1] = "/"
    THEN IF Len(s) >= 2 /\ s[2] = "/" /\ ~(Len(s) >= 3 /\ s[3] = "/")
         THEN <<"/", "/">> ELSE <<"/">>
    ELSE <<>>

\* Path(s).as_posix(): empty and "." components are dropped, and with them a
\* trailing separator; the empty path is "."
AsPosix(s) ==
    LET parts == SelectSeq(SplitFrom(s, 1, <<>>),
                           LAMBDA c : c # <<>> /\ c # <<".">>)
        body == JoinParts(parts)
    IN  IF PathRoot(s) = <<>> /\ body = <<>> THEN <<".">>
        ELSE PathRoot(s) \o body

\* one regex atom against one character: ".", "\d" or a literal character
AtomMatches(atom, c) ==
    CASE atom = "." -> TRUE
      [] atom = "\\d" -> c \in Digits
      [] OTHER -> atom = c

\* positions after a run of zero or more characters matched by atom from j
Runs(atom, s, j) ==
    {k \in j..(Len(s) + 1) : \A m \in j..(k - 1) : AtomMatches(atom, s[m])}

RECURSIVE MatchEnds(_, _, _, _)
\* the positions at which a match of pattern p[i..] that starts at s[j] can
\* end; atoms may carry the quantifier "*" or "+"
MatchEnds(p, i, s, j) ==
    IF i > Len(p) THEN {j}
    ELSE LET q == IF i + 1 <= Len(p) /\ p[i + 1] \in {"*", "+"}
                  THEN p[i + 1] ELSE ""
         IN  CASE q = "*" ->
                    UNION {MatchEnds(p, i + 2, s, k) : k \in Runs(p[i], s, j)}
               [] q = "+" ->
                    UNION {MatchEnds(p, i + 2, s, k) :
                               k \in Runs(p[i], s, j) \ {j}}
               [] OTHER ->
                    IF j <= Len(s) /\ AtomMatches(p[i], s[j])
                    THEN MatchEnds(p, i + 1, s, j + 1) ELSE {}

\* re.match(p, s) is not None: some prefix of s matches p
ReMatch(p, s) == MatchEnds(p, 1, s, 1) # {}

\* re.fullmatch(p, s) is not None: the whole of s matches p
ReFullMatch(p, s) == (Len(s) + 1) \in MatchEnds(p, 1, s, 1)


(***************************************************************************)
(* State                                                                   *)
(***************************************************************************)
VARIABLES
    psv,    \* the PayloadStructureValidator instance (its attributes)
    ffv,    \* the FileFormatValidator instance
    pv,     \* the ProfileValidator instance
    piv,    \* the PayloadIntegrityValidator instance
    fiv,    \* the FileIntegrityValidator instance
    fs,     \* what is on disk for the validator under test: the bag or the file
    call    \* the last call made on the validator under test and its result

vars == <<psv, ffv, pv, piv, fiv, fs, call>>

\* a validator that a behaviour does not construct
Absent == [constructed |-> FALSE]

(***************************************************************************)
(* Log (dcm_common.Logger as the validators use it)                        *)
(***************************************************************************)
\* one logged message: Logger.log(context, origin=..., body=...)
Entry(context, origin, msg, arg1, arg2) ==
    [context |-> context, origin |-> origin, msg |-> msg,
     arg1 |-> arg1, arg2 |-> arg2]

\* Context.ERROR in log
HasError(log) == \E i \in 1..Len(log) : log[i].context = "ERROR"

\* log.pick(Context.ERROR)
Errors(log) == SelectSeq(log, LAMBDA e : e.context = "ERROR")

\* how a call ended: "return" with a value, or "raise" with an error class
Returned(value) == [kind |-> "return", value |-> value, error |-> ""]
Raised(error) == [kind |-> "raise", value |-> -1, error |-> error]
NoResult == [kind |-> "none", value |-> -1, error |-> ""]

(***************************************************************************)
(* Inputs: payload profiles and payload trees                              *)
(***************************************************************************)
\* a Payload-Folders-Allowed entry: a string literal or {"regex": ...}
Lit(s) == [regex |-> FALSE, s |-> s]
Rx(s) == [regex |-> TRUE, s |-> s]

required_directory == <<"r">>
optional_directory_4 == <<"o", "/", "4">>
\* a directory whose name holds a character that is special in a regex
plus_directory == <<"r", "+">>
optional_directory_regex == <<"o", "/", "\\d", "+">>

AllowedEntries ==
    {Lit(required_directory), Lit(plus_directory), Rx(optional_directory_regex)}

RequiredEntries == {required_directory, optional_directory_4, plus_directory}

\* the sequences over S of length at most n
SeqUpTo(S, n) == UNION {[1..k -> S] : k \in 0..n}

\* the sequences of SeqUpTo(S, n) that name no element twice
DistinctSeqUpTo(S, n) ==
    {q \in SeqUpTo(S, n) : \A i, j \in DOMAIN q : q[i] = q[j] => i = j}

\* a profile: the two optional keys and their lists
Profiles ==
    {[hasAllowed |-> ha, Allowed |-> a, hasRequired |-> hr, Required |-> r] :
        ha \in BOOLEAN, a \in DistinctSeqUpTo(AllowedEntries, MaxAllowed),
        hr \in BOOLEAN, r \in DistinctSeqUpTo(RequiredEntries, MaxRequired)}

\* the profiles a JSON document can give: an absent key has no list
WellFormedProfiles ==
    {p \in Profiles : (~p.hasAllowed => p.Allowed = <<>>)
                      /\ (~p.hasRequired => p.Required = <<>>)}

\* payload files, as paths relative to data/
FileCandidates ==
    { <<"r", "/", "f">>,                \* required_directory/test.dat
      <<"r", "/", "F">>,                \* required_directory/TEST.dat
      <<"r", "x">>,                     \* required_directory_test.dat
      <<"o", "/", "4", "/", "f">>,      \* optional_directory/4/test.dat
      <<"o", "/", "4", "a", "/", "f">>, \* optional_directory/4a/test.dat
      <<"o", "/", "4", "a", "f">>,      \* optional_directory/4atest.dat, a
                                        \* file directly in optional_directory
      <<"r", "+", "/", "f">> }          \* a file in the directory "r+"

\* directories that may exist without a file in them
EmptyDirCandidates == {required_directory}

\* the directories above a file: its proper prefixes that end before a "/"
Ancestors(file) ==
    {SubSeq(file, 1, k - 1) : k \in {i \in 1..Len(file) : file[i] = "/"}}

\* the orders in which util.list_directory_content can list a set of files
Listings(files) ==
    {o \in [1..Cardinality(files) -> files] :
        \A f \in files : \E i \in DOMAIN o : o[i] = f}

\* a payload tree: the files under data/, the directories without files, and
\* the order in which the file system lists the files
Trees ==
    UNION {{[files |-> files, emptyDirs |-> ds, listing |-> o] :
               ds \in SUBSET EmptyDirCandidates, o \in Listings(files)} :
           files \in {x \in SUBSET FileCandidates : Cardinality(x) <= MaxFiles}}

\* (bag_path / "data" / d).is_dir()
IsDir(bag, d) ==
    AsPosix(d) \in ({<<".">>} \cup bag.emptyDirs
                    \cup UNION {Ancestors(f) : f \in bag.files})

\* file.relative_to(bag_path) of a payload file
DataRel(rel) == <<"d", "/">> \o rel

(***************************************************************************)
(* PayloadStructureValidator                                               *)
(***************************************************************************)
PSV_TAG == "Payload Structure Validator"

\* the entry with a separator added unless it ends with one
process_allowed_regex_from_profile(input_value) ==
    [string |-> input_value.s
                \o (IF input_value.s[Len(input_value.s)] # "/"
                    THEN <<"/">> ELSE <<>>),
     is_regex |-> input_value.regex]

\* self.allowed with the catch-all regex processed like a profile entry, so
\* that it ends with a separator
PSV_allowed_default_processed(profile) ==
    IF profile.hasAllowed
    THEN [i \in 1..Len(profile.Allowed) |->
              process_allowed_regex_from_profile(profile.Allowed[i])]
    ELSE << process_allowed_regex_from_profile(Rx(<<".", "*">>)) >>

\* self.allowed: the processed entries, or one catch-all regex
PSV_allowed(profile) ==
    IF profile.hasAllowed
    THEN [i \in 1..Len(profile.Allowed) |->
              process_allowed_regex_from_profile(profile.Allowed[i])]
    ELSE << [string |-> <<".", "*">>, is_regex |-> TRUE] >>

\* self.required: the entries as written, never as regex
PSV_required(profile) ==
    IF profile.hasRequired
    THEN [i \in 1..Len(profile.Required) |->
              [string |-> profile.Required[i], is_regex |-> FALSE]]
    ELSE <<>>

\* PayloadStructureValidator(url, profile)
PSV_init(profile) ==
    [profile |-> profile, allowed |-> PSV_allowed(profile),
     required |-> PSV_required(profile), log |-> <<>>]

\* one pattern of match_any_regex against the normalised path
pattern_matches(path, pattern, use_as_regex_anyway) ==
    IF use_as_regex_anyway \/ pattern.is_regex
    THEN ReMatch(pattern.string, path)
    ELSE AsPosix(pattern.string) = path

match_any_regex(path, patterns, use_as_regex_anyway) ==
    \E i \in 1..Len(patterns) :
        pattern_matches(AsPosix(path), patterns[i], use_as_regex_anyway)

\* the four sub-checks give [ok, log]: the value returned and what is logged
validate_payload_directories_allowed(self) ==
    LET required_but_not_allowed ==
            SelectSeq(self.required,
                LAMBDA f : ~match_any_regex(f.string, self.allowed, FALSE))
    IN  [ok |-> required_but_not_allowed = <<>>,
         log |-> [i \in 1..Len(required_but_not_allowed) |->
                     Entry("ERROR", PSV_TAG, "not listed in Payload-Folders-Allowed",
                           required_but_not_allowed[i].string, <<>>)]]

validate_payload_directories_required(self, bag) ==
    IF ~self.profile.hasRequired THEN [ok |-> TRUE, log |-> <<>>]
    ELSE LET missing == SelectSeq(self.profile.Required,
                                  LAMBDA payload_dir : ~IsDir(bag, payload_dir))
         IN  [ok |-> missing = <<>>,
              log |-> [i \in 1..Len(missing) |->
                          Entry("ERROR", PSV_TAG, "is not present in Bag",
                                missing[i], <<>>)]]

validate_payload_dir_files(self, listing) ==
    IF ~self.profile.hasAllowed THEN [ok |-> TRUE, log |-> <<>>]
    ELSE LET disallowed_payload_files ==
                 SelectSeq(listing,
                     LAMBDA p : ~match_any_regex(p, self.allowed, TRUE))
         IN  [ok |-> disallowed_payload_files = <<>>,
              log |-> [i \in 1..Len(disallowed_payload_files) |->
                          Entry("ERROR", PSV_TAG, "found in illegal location",
                                DataRel(disallowed_payload_files[i]), <<>>)]]

RECURSIVE capitalization_scan_last_seen(_, _, _)
\* the loop that keeps, for each lowercase form, the path seen last
capitalization_scan_last_seen(listing, i, checked) ==
    IF i > Len(listing) THEN <<>>
    ELSE LET file_relative == DataRel(listing[i])
             file_lower == Lower(file_relative)
         IN  IF file_lower \in DOMAIN checked
             THEN <<Entry("ERROR", PSV_TAG, "only differ in their capitalization",
                          file_relative, checked[file_lower])>>
                  \o capitalization_scan_last_seen(listing, i + 1,
                         [checked EXCEPT ![file_lower] = file_relative])
             ELSE capitalization_scan_last_seen(listing, i + 1,
                                      checked @@ (file_lower :> file_relative))

RECURSIVE capitalization_scan(_, _, _)
\* the loop over payload_files from index i on, checked being the dict of the
\* first path seen for each lowercase form
capitalization_scan(listing, i, checked) ==
    IF i > Len(listing) THEN <<>>
    ELSE LET file_relative == DataRel(listing[i])
             file_lower == Lower(file_relative)
         IN  IF file_lower \in DOMAIN checked
             THEN <<Entry("ERROR", PSV_TAG, "only differ in their capitalization",
                          file_relative, checked[file_lower])>>
                  \o capitalization_scan(listing, i + 1, checked)
             ELSE capitalization_scan(listing, i + 1,
                                      checked @@ (file_lower :> file_relative))

validate_payload_files_capitalization(listing) ==
    LET found == capitalization_scan(listing, 1, <<>>)
    IN  [ok |-> found = <<>>, log |-> found]

\* the verdict line logged after a group of sub-checks
PSV_response(ok, which) ==
    <<Entry("INFO", PSV_TAG, IF ok THEN "POSITIVE_RESPONSE" ELSE "NEGATIVE_RESPONSE",
            which, <<>>)>>

\* validate_bag that stops at the first group of sub-checks that fails
PSV_run_short_circuit(self, bag, listing) ==
    LET a == validate_payload_directories_allowed(self)
        b == validate_payload_directories_required(self, bag)
        c == validate_payload_dir_files(self, listing)
        d == validate_payload_files_capitalization(listing)
        first == a.log \o b.log \o PSV_response(a.ok /\ b.ok, <<"ALLOW_REQ">>)
        second == c.log \o PSV_response(c.ok, <<"STRUCT">>)
        third == d.log \o PSV_response(d.ok, <<"CAP">>)
    IN  IF ~(a.ok /\ b.ok) THEN [log |-> first, exitcode |-> 1]
        ELSE IF ~c.ok THEN [log |-> first \o second, exitcode |-> 1]
        ELSE [log |-> first \o second \o third,
              exitcode |-> IF d.ok THEN 0 ELSE 1]

\* validate_bag on a bag_path of an accepted type: [log, exitcode]
PSV_run(self, bag, listing) ==
    LET a == validate_payload_directories_allowed(self)
        b == validate_payload_directories_required(self, bag)
        c == validate_payload_dir_files(self, listing)
        d == validate_payload_files_capitalization(listing)
    IN  [log |-> a.log \o b.log \o PSV_response(a.ok /\ b.ok, <<"ALLOW_REQ">>)
                 \o c.log \o PSV_response(c.ok, <<"STRUCT">>)
                 \o d.log \o PSV_response(d.ok, <<"CAP">>),
         exitcode |-> IF a.ok /\ b.ok /\ c.ok /\ d.ok THEN 0 ELSE 1]

\* how validate_bag ends for an exit code
PSV_result(exitcode) ==
    IF exitcode # 0 THEN Raised("PayloadStructureValidationError")
    ELSE Returned(exitcode)

PathTypes == {"str", "Path", "other"}

\* PayloadStructureValidator.validate_bag(bag_path): the log is renewed, then
\* a bag_path that is neither str nor Path is refused, else the checks run on
\* the bag on disk
PayloadStructureValidator_validate_bag(bag_path_type) ==
    /\ call.component = "PayloadStructureValidator"
    /\ LET run == PSV_run(psv, fs, fs.listing)
       IN  IF bag_path_type \notin {"str", "Path"}
           THEN /\ psv' = [psv EXCEPT !.log = <<>>]
                /\ call' = [call EXCEPT !.op = "validate_bag",
                                        !.result = Raised("TypeError")]
           ELSE /\ psv' = [psv EXCEPT !.log = run.log]
                /\ call' = [call EXCEPT !.op = "validate_bag",
                                        !.result = PSV_result(run.exitcode)]
    /\ UNCHANGED <<ffv, pv, piv, fiv, fs>>

NoCall(component) ==
    [component |-> component, op |-> "none", args |-> <<>>, result |-> NoResult,
     invoked |-> <<>>]

InitStructure ==
    /\ \E profile \in WellFormedProfiles : psv = PSV_init(profile)
    /\ fs \in Trees
    /\ call = NoCall("PayloadStructureValidator")
    /\ ffv = Absent /\ pv = Absent /\ piv = Absent /\ fiv = Absent

NextStructure ==
    \E bag_path_type \in PathTypes :
        PayloadStructureValidator_validate_bag(bag_path_type)

SpecStructure == InitStructure /\ [][NextStructure]_vars

\* payload files whose paths are equal up to letter case
CaseFileCandidates ==
    { <<"r", "/", "f">>, <<"r", "/", "F">>, <<"R", "/", "f">>, <<"R", "/", "F">> }

\* the payload trees of such files
CaseTrees ==
    UNION {{[files |-> files, emptyDirs |-> {}, listing |-> o] :
               o \in Listings(files)} :
           files \in {x \in SUBSET CaseFileCandidates :
                         Cardinality(x) <= MaxCaseFiles}}

\* a PayloadStructureValidator and a bag whose file names collide
InitCapitalization ==
    /\ \E profile \in WellFormedProfiles : psv = PSV_init(profile)
    /\ fs \in CaseTrees
    /\ call = NoCall("PayloadStructureValidator")
    /\ ffv = Absent /\ pv = Absent /\ piv = Absent /\ fiv = Absent

SpecCapitalization == InitCapitalization /\ [][NextStructure]_vars

(***************************************************************************)
(* What the profile means, stated without the validator's matching         *)
(***************************************************************************)
\* the directory d lies on the path of the file: d is one of its ancestors
InsideDir(file, d) == AsPosix(d) \in Ancestors(file)

\* the file is inside a directory that the allowed entry covers: the
\* directory the literal names, or a directory the regex matches as a whole
InsideCovered(file, entry) ==
    IF entry.regex THEN \E d \in Ancestors(file) : ReFullMatch(entry.s, d)
    ELSE InsideDir(file, entry.s)

\* the file is inside a directory covered by an allowed rule of the profile
InsideAllowed(profile, file) ==
    ~profile.hasAllowed
    \/ \E i \in DOMAIN profile.Allowed : InsideCovered(file, profile.Allowed[i])

\* the directory d is covered by an allowed rule of the profile: a literal
\* that names it or a regex, as written, that matches it
DirCovered(profile, d) ==
    ~profile.hasAllowed
    \/ \E i \in DOMAIN profile.Allowed :
          IF profile.Allowed[i].regex
          THEN ReFullMatch(profile.Allowed[i].s, AsPosix(d))
          ELSE AsPosix(profile.Allowed[i].s) = AsPosix(d)

\* the directories of a tree
Dirs(bag) == bag.emptyDirs \cup UNION {Ancestors(f) : f \in bag.files}

\* no two payload files are equal up to letter case
NoCaseCollision(bag) ==
    \A f, g \in bag.files : Lower(f) = Lower(g) => f = g

\* the number of Errors in the log with this message about this path
CountErrors(log, msg, path) ==
    Cardinality({i \in DOMAIN log : /\ log[i].context = "ERROR"
                                    /\ log[i].msg = msg
                                    /\ log[i].arg1 = path})

\* validate_bag of the PayloadStructureValidator was called with a bag_path
\* of an accepted type, so that it came to its checks
PSV_Checked ==
    /\ call.component = "PayloadStructureValidator"
    /\ call.op = "validate_bag"
    /\ call.result.error # "TypeError"

(***************************************************************************)
(* Claims about the PayloadStructureValidator                              *)
(***************************************************************************)
\* the INFO verdict of a group of sub-checks in the log
Response(log, which) ==
    {log[i].msg : i \in {j \in DOMAIN log : /\ log[j].context = "INFO"
                                            /\ log[j].arg1 = which}}

\* C3: validate_bag runs all four sub-checks in every call: the Errors of the
\* log are those of the four sub-checks together, each group logs its verdict,
\* and the call raises PayloadStructureValidationError iff a sub-check failed
\* and returns 0 otherwise.
C3_AllSubChecksRun ==
    PSV_Checked =>
        LET a == validate_payload_directories_allowed(psv)
            b == validate_payload_directories_required(psv, fs)
            c == validate_payload_dir_files(psv, fs.listing)
            d == validate_payload_files_capitalization(fs.listing)
            failed == ~(a.ok /\ b.ok /\ c.ok /\ d.ok)
        IN  /\ Errors(psv.log) = a.log \o b.log \o c.log \o d.log
            /\ \A which \in {<<"ALLOW_REQ">>, <<"STRUCT">>, <<"CAP">>} :
                   Cardinality(Response(psv.log, which)) = 1
            /\ (call.result = Raised("PayloadStructureValidationError")) <=> failed
            /\ (call.result = Returned(0)) <=> ~failed

\* a call in which all four sub-checks failed
C3_Witness ==
    /\ PSV_Checked
    /\ ~validate_payload_directories_allowed(psv).ok
    /\ ~validate_payload_directories_required(psv, fs).ok
    /\ ~validate_payload_dir_files(psv, fs.listing).ok
    /\ ~validate_payload_files_capitalization(fs.listing).ok
    /\ call.result = Raised("PayloadStructureValidationError")

\* the payload tree conforms to the profile: it contains exactly the required
\* directories, its files are inside allowed directories only, and no two
\* paths are equal up to letter case
TreeConforms(profile, bag) ==
    /\ Dirs(bag) = {AsPosix(profile.Required[i]) : i \in DOMAIN profile.Required}
    /\ \A f \in bag.files : InsideAllowed(profile, f)
    /\ NoCaseCollision(bag)

\* C4: for a profile whose required directories pass the reconciliation check
\* and a payload tree that conforms to it, validate_bag returns 0 and logs no
\* Error.
C4_ConformantBagPasses ==
    (/\ PSV_Checked
     /\ validate_payload_directories_allowed(psv).ok
     /\ TreeConforms(psv.profile, fs))
        => /\ call.result = Returned(0)
           /\ ~HasError(psv.log)

\* the file's name extends the name of the directory: the name, then more
\* characters of the same path component
ExtendsName(file, d) ==
    /\ Len(file) > Len(d)
    /\ SubSeq(file, 1, Len(d)) = d
    /\ \A k \in (Len(d) + 1)..Len(file) : file[k] # "/"

\* C5: a literal rule matches its own name and not the name extended by a
\* character; in the allowed-placement check, a file whose name merely extends
\* the name of an allowed literal directory (and that no rule allows) is
\* reported as in an illegal location, and a file inside the directory is not.
C5_NoPrefixMatching ==
    PSV_Checked =>
        \A i \in DOMAIN psv.profile.Allowed :
            LET entry == psv.profile.Allowed[i]
                rule == process_allowed_regex_from_profile(entry)
            IN  ~entry.regex =>
                  /\ match_any_regex(entry.s, <<rule>>, FALSE)
                  /\ ~match_any_regex(entry.s \o <<"x">>, <<rule>>, FALSE)
                  /\ \A f \in fs.files :
                        /\ (ExtendsName(f, entry.s) /\ ~InsideAllowed(psv.profile, f))
                              => CountErrors(psv.log, "found in illegal location",
                                             DataRel(f)) = 1
                        /\ InsideDir(f, entry.s)
                              => CountErrors(psv.log, "found in illegal location",
                                             DataRel(f)) = 0

\* C6: a rule used as a regex matches a path only if the whole path matches
\* its pattern.
C6_RegexMatchesWholePath ==
    PSV_Checked =>
        \A f \in fs.files : \A i \in DOMAIN psv.allowed :
            match_any_regex(f, <<psv.allowed[i]>>, TRUE)
                => ReFullMatch(psv.allowed[i].string, AsPosix(f))

\* C7: the reconciliation check logs one "not listed" Error for a required
\* directory exactly when no allowed rule covers it, and none when a literal
\* names it or a regex, as written in the profile, matches it.
C7_ReconciliationExact ==
    PSV_Checked =>
        \A i \in DOMAIN psv.profile.Required :
            LET d == psv.profile.Required[i]
            IN  CountErrors(psv.log, "not listed in Payload-Folders-Allowed", d)
                    = IF DirCovered(psv.profile, d) THEN 0 ELSE 1

\* the path with the directory from renamed to the directory to
RenamePath(path, from, to) ==
    IF path = from THEN to
    ELSE IF from \in Ancestors(path)
         THEN to \o SubSeq(path, Len(from) + 1, Len(path))
         ELSE path

\* the tree with the directory from renamed to the directory to
RenameDir(bag, from, to) ==
    [files |-> {RenamePath(f, from, to) : f \in bag.files},
     emptyDirs |-> {RenamePath(e, from, to) : e \in bag.emptyDirs},
     listing |-> [k \in DOMAIN bag.listing |-> RenamePath(bag.listing[k], from, to)]]

\* C8: the required-existence check logs one "is not present in Bag" Error
\* for each required directory that is no directory under data/ and none for
\* the others; and when the bag is a conformant payload with one required
\* directory renamed to a name that no allowed rule covers, the run reports
\* one "not present" Error and one "illegal location" Error for every file
\* of the renamed directory.
C8_RequiredExistence ==
    PSV_Checked =>
        /\ \A i \in DOMAIN psv.profile.Required :
               LET d == psv.profile.Required[i]
               IN  CountErrors(psv.log, "is not present in Bag", d)
                       = IF IsDir(fs, d) THEN 0 ELSE 1
        /\ \A i \in DOMAIN psv.profile.Required : \A new \in Dirs(fs) :
               LET d == psv.profile.Required[i]
                   before == RenameDir(fs, new, AsPosix(d))
               IN  (/\ AsPosix(d) \notin Dirs(fs)
                    /\ validate_payload_directories_allowed(psv).ok
                    /\ TreeConforms(psv.profile, before)
                    /\ ~DirCovered(psv.profile, new)
                    /\ \A e \in Dirs(fs) : ~DirCovered(psv.profile, e))
                       => /\ Len(SelectSeq(psv.log,
                                 LAMBDA e : e.msg = "is not present in Bag")) = 1
                          /\ \A f \in fs.files :
                                InsideDir(f, new) =>
                                    CountErrors(psv.log, "found in illegal location",
                                                DataRel(f)) = 1

\* C9: the allowed-placement check logs one "illegal location" Error for each
\* payload file that is not inside a directory covered by an allowed rule, and
\* none for the other files.
C9_PlacementExact ==
    PSV_Checked =>
        \A f \in fs.files :
            CountErrors(psv.log, "found in illegal location", DataRel(f))
                = IF InsideAllowed(psv.profile, f) THEN 0 ELSE 1

\* C10: without the key Payload-Folders-Allowed the allowed-placement check
\* and the reconciliation check pass, for every payload tree and every list of
\* required directories; without the key Payload-Folders-Required the
\* reconciliation check and the required-existence check pass.
C10_AbsentKeysPass ==
    PSV_Checked =>
        /\ ~psv.profile.hasAllowed =>
              /\ Response(psv.log, <<"STRUCT">>) = {"POSITIVE_RESPONSE"}
              /\ \A i \in DOMAIN psv.log :
                     psv.log[i].msg \notin
                         {"found in illegal location",
                          "not listed in Payload-Folders-Allowed"}
        /\ ~psv.profile.hasRequired =>
              /\ Response(psv.log, <<"ALLOW_REQ">>) = {"POSITIVE_RESPONSE"}
              /\ \A i \in DOMAIN psv.log :
                     psv.log[i].msg \notin
                         {"is not present in Bag",
                          "not listed in Payload-Folders-Allowed"}

\* a call with a profile without Payload-Folders-Allowed, a required directory
\* and a payload file
C10_Witness ==
    /\ PSV_Checked
    /\ ~psv.profile.hasAllowed
    /\ psv.profile.Required # <<>>
    /\ fs.files # {}

\* the Errors of the capitalization check in the log
CapErrors(log) ==
    {i \in DOMAIN log : /\ log[i].context = "ERROR"
                        /\ log[i].msg = "only differ in their capitalization"}

\* the place in the listing of the first path with the lowercase form of the
\* path at place i
FirstSeen(listing, i) ==
    CHOOSE j \in 1..i : /\ Lower(listing[j]) = Lower(listing[i])
                        /\ \A k \in 1..(j - 1) : Lower(listing[k]) # Lower(listing[i])

\* C11: the capitalization check logs (number of files) minus (number of
\* distinct lowercased paths) Errors, one for each file listed after a file
\* with the same lowercase form, naming that file and the first-seen one; the
\* check passes iff there is no such Error.
C11_CapitalizationCount ==
    PSV_Checked =>
        LET listing == fs.listing
            later == {i \in DOMAIN listing : FirstSeen(listing, i) # i}
        IN  /\ Cardinality(CapErrors(psv.log))
                 = Cardinality(fs.files)
                   - Cardinality({Lower(DataRel(f)) : f \in fs.files})
            /\ \A i \in later :
                   Cardinality({k \in CapErrors(psv.log) :
                       /\ psv.log[k].arg1 = DataRel(listing[i])
                       /\ psv.log[k].arg2 = DataRel(listing[FirstSeen(listing, i)])}) = 1
            /\ Response(psv.log, <<"CAP">>) =
                   {IF CapErrors(psv.log) = {} THEN "POSITIVE_RESPONSE"
                    ELSE "NEGATIVE_RESPONSE"}

\* a call on a tree of three files equal up to letter case: two Errors
C11_Witness ==
    /\ PSV_Checked
    /\ Cardinality(fs.files) = 3
    /\ Cardinality({Lower(f) : f \in fs.files}) = 1
    /\ Cardinality(CapErrors(psv.log)) = 2

(***************************************************************************)
(* FileFormatValidator                                                     *)
(***************************************************************************)
\* longest list of (selector, plugin) pairs of a FileFormatValidator
MaxPlugins == 2
\* largest number of payload files of a bag given to the FileFormatValidator
MaxBagFiles == 2
\* longest log that validate_file is called on with clear_report=False
MaxLog == 1

FFV_TAG == "File Format Validator"

text_plain == <<"t", "/", "p">>

\* what fido gives for a file: a failed run, or the first field of its output
FidoResults ==
    {[failed |-> TRUE, mimetype |-> <<>>]}
    \cup {[failed |-> FALSE, mimetype |-> m] : m \in {<<>>, text_plain}}

\* File.get_mime_type: None after CalledProcessError, else the stripped field
get_mime_type(fido) ==
    IF fido.failed THEN [none |-> TRUE, s |-> <<>>]
    ELSE [none |-> FALSE, s |-> fido.mimetype]

\* the i-th payload file of the bag
FilePath(i) == <<"d", "/", "f">> \o (IF i = 1 THEN <<"1">> ELSE IF i = 2 THEN <<"2">>
                                     ELSE IF i = 3 THEN <<"3">> ELSE <<"4">>)

\* selectors: a list of MIME types or a regex
Selectors ==
    {[kind |-> "list", types |-> {text_plain}, regex |-> <<>>],
     [kind |-> "str", types |-> {}, regex |-> <<".", "*">>]}

\* plugins, by what validate_file_format gives on every file: the verdict and
\* whether an Error is in the plugin's log after the call
PluginKinds ==
    {[tag |-> "Pass", verdict |-> 0, error |-> FALSE],
     [tag |-> "Fail", verdict |-> 1, error |-> TRUE],
     [tag |-> "FailNoError", verdict |-> 1, error |-> FALSE],
     [tag |-> "ErrorNoFail", verdict |-> 0, error |-> TRUE]}

\* validator_tuple[1].validate_file_format(file_path, file_type) and the
\* plugin's log after it
validate_file_format(plugin, file_path, file_type) ==
    [verdict |-> plugin.verdict,
     log |-> IF plugin.error
             THEN <<Entry("ERROR", plugin.tag, "invalid", file_path, file_type)>>
             ELSE <<>>]

\* a selector test that takes a regex for matched when a prefix of the file
\* type matches
selector_matches_prefix(selector, file_type) ==
    IF selector.kind = "list" THEN file_type \in selector.types
    ELSE ReMatch(selector.regex, file_type)

\* the selector applies to the file type: membership or re.fullmatch
selector_matches(selector, file_type) ==
    IF selector.kind = "list" THEN file_type \in selector.types
    ELSE ReFullMatch(selector.regex, file_type)

\* a call validators[index][1].validate_file_format(file_path, file_type)
Invocation(index, file_path, file_type) ==
    [index |-> index, file_path |-> file_path, file_type |-> file_type]

RECURSIVE FFV_validators_loop_silent(_, _, _, _)
\* a loop over self.validators that passes over a plugin whose selector does
\* not apply without a Warning
FFV_validators_loop_silent(validators, i, file_path, file_type) ==
    IF i > Len(validators) THEN [log |-> <<>>, exitcode |-> 0, invoked |-> <<>>]
    ELSE LET validator_tuple == validators[i]
             rest == FFV_validators_loop_silent(validators, i + 1, file_path, file_type)
         IN  IF ~selector_matches(validator_tuple.selector, file_type)
             THEN rest
             ELSE LET out == validate_file_format(validator_tuple.plugin,
                                                  file_path, file_type)
                  IN  [log |-> out.log \o rest.log,
                       exitcode |-> IF out.verdict # 0 THEN 1 ELSE rest.exitcode,
                       invoked |-> <<Invocation(i, file_path, file_type)>>
                                   \o rest.invoked]

RECURSIVE FFV_validators_loop_stop_at_failure(_, _, _, _)
\* a loop over self.validators that ends with the first failing verdict
FFV_validators_loop_stop_at_failure(validators, i, file_path, file_type) ==
    IF i > Len(validators) THEN [log |-> <<>>, exitcode |-> 0, invoked |-> <<>>]
    ELSE LET validator_tuple == validators[i]
             rest == FFV_validators_loop_stop_at_failure(validators, i + 1,
                                                         file_path, file_type)
         IN  IF ~selector_matches(validator_tuple.selector, file_type)
             THEN [log |-> <<Entry("WARNING", validator_tuple.plugin.tag,
                                   "left unchecked", file_path, file_type)>>
                           \o rest.log,
                   exitcode |-> rest.exitcode,
                   invoked |-> rest.invoked]
             ELSE LET out == validate_file_format(validator_tuple.plugin,
                                                  file_path, file_type)
                  IN  IF out.verdict # 0
                      THEN [log |-> out.log, exitcode |-> 1,
                            invoked |-> <<Invocation(i, file_path, file_type)>>]
                      ELSE [log |-> out.log \o rest.log,
                            exitcode |-> rest.exitcode,
                            invoked |-> <<Invocation(i, file_path, file_type)>>
                                        \o rest.invoked]

RECURSIVE FFV_validators_loop(_, _, _, _)
\* the loop of validate_file over self.validators from index i on: what is
\* added to the log, the exit code, and the calls of validate_file_format
FFV_validators_loop(validators, i, file_path, file_type) ==
    IF i > Len(validators) THEN [log |-> <<>>, exitcode |-> 0, invoked |-> <<>>]
    ELSE LET validator_tuple == validators[i]
             rest == FFV_validators_loop(validators, i + 1, file_path, file_type)
         IN  IF ~selector_matches(validator_tuple.selector, file_type)
             THEN [log |-> <<Entry("WARNING", validator_tuple.plugin.tag,
                                   "left unchecked", file_path, file_type)>>
                           \o rest.log,
                   exitcode |-> rest.exitcode,
                   invoked |-> rest.invoked]
             ELSE LET out == validate_file_format(validator_tuple.plugin,
                                                  file_path, file_type)
                  IN  [log |-> out.log \o rest.log,
                       exitcode |-> IF out.verdict # 0 THEN 1 ELSE rest.exitcode,
                       invoked |-> <<Invocation(i, file_path, file_type)>>
                                   \o rest.invoked]

\* the line that _finalize logs when print_log is set
FFV_summary(exitcode, print_log) ==
    IF print_log
    THEN <<Entry("INFO", FFV_TAG,
                 IF exitcode = 0 THEN "POSITIVE_RESPONSE" ELSE "NEGATIVE_RESPONSE",
                 <<>>, <<>>)>>
    ELSE <<>>

\* how _finalize ends for an exit code
FFV_finalize_result(exitcode) ==
    IF exitcode # 0 THEN Raised("FileFormatValidationError")
    ELSE Returned(exitcode)

\* validate_file(file_path, clear_report=..., log_summary=...) on the log
\* given: [hasLog, log, result].  file_kind is the type of file_path;
\* make_path_accepts says what util.make_path does with a File object.
\* Logging on a log that is None is an AttributeError.
FFV_validate_file(self, file_kind, make_path_accepts, file_path, fido, clear_report, log_summary) ==
    LET hasLog == clear_report \/ self.hasLog
        log0 == IF clear_report THEN <<>> ELSE self.log
        file_type == get_mime_type(fido)
        loop == FFV_validators_loop(self.validators, 1, file_path, file_type.s)
        keep(result) == [hasLog |-> hasLog, log |-> log0, result |-> result,
                         invoked |-> <<>>]
    IN  IF file_kind = "File" /\ ~make_path_accepts THEN keep(Raised("TypeError"))
        ELSE IF file_kind # "Path" THEN keep(Raised("UnboundLocalError"))
        ELSE IF file_type.none
        THEN IF ~hasLog THEN keep(Raised("AttributeError"))
             ELSE [hasLog |-> TRUE,
                   log |-> log0 \o <<Entry("ERROR", FFV_TAG, "Unable to analyze file",
                                           file_path, <<>>)>>,
                   result |-> Returned(1), invoked |-> <<>>]
        ELSE IF ~hasLog
        THEN IF Len(self.validators) > 0 \/ log_summary
             THEN keep(Raised("AttributeError"))
             ELSE keep(Returned(0))
        ELSE [hasLog |-> TRUE,
              log |-> log0 \o loop.log \o FFV_summary(loop.exitcode, log_summary),
              result |-> FFV_finalize_result(loop.exitcode),
              invoked |-> loop.invoked]

RECURSIVE FFV_files_loop_stop_at_failure(_, _, _, _)
\* a loop of validate_bag over the files that ends with the first file that
\* fails
FFV_files_loop_stop_at_failure(self, files, i, acc) ==
    IF i > Len(files) THEN acc
    ELSE LET one == FFV_validate_file([self EXCEPT !.hasLog = TRUE, !.log = acc.log],
                                      "Path", TRUE, FilePath(i), files[i],
                                      FALSE, FALSE)
             this_exit_code == IF one.result.kind = "raise" THEN 1
                               ELSE one.result.value
             next == [log |-> one.log,
                      exitcode |-> IF this_exit_code # 0 THEN 1 ELSE acc.exitcode,
                      invoked |-> acc.invoked \o one.invoked]
         IN  IF this_exit_code # 0 THEN next
             ELSE FFV_files_loop_stop_at_failure(self, files, i + 1, next)

RECURSIVE FFV_files_loop(_, _, _, _)
\* the loop of validate_bag over the files from index i on, with the log and
\* the exit code so far: [log, exitcode]
FFV_files_loop(self, files, i, acc) ==
    IF i > Len(files) THEN acc
    ELSE LET one == FFV_validate_file([self EXCEPT !.hasLog = TRUE, !.log = acc.log],
                                      "Path", TRUE, FilePath(i), files[i],
                                      FALSE, FALSE)
             this_exit_code == IF one.result.kind = "raise" THEN 1
                               ELSE one.result.value
         IN  FFV_files_loop(self, files, i + 1,
                 [log |-> one.log,
                  exitcode |-> IF this_exit_code # 0 THEN 1 ELSE acc.exitcode,
                  invoked |-> acc.invoked \o one.invoked])

\* FileFormatValidator.validate_file on a file of the disk.  The file is the
\* first one: the disks of InitFormat have every kind of file in that place.
FileFormatValidator_validate_file(file_kind, make_path_accepts, clear_report, log_summary) ==
    /\ call.component = "FileFormatValidator"
    /\ fs.files # <<>>
    /\ clear_report \/ Len(ffv.log) <= MaxLog
    \* arguments that the call does not get to read are given one value
    /\ file_kind # "File" => make_path_accepts
    /\ file_kind # "Path" => log_summary
    /\ LET out == FFV_validate_file(ffv, file_kind, make_path_accepts,
                                    FilePath(1), fs.files[1],
                                    clear_report, log_summary)
       IN  /\ ffv' = [ffv EXCEPT !.hasLog = out.hasLog, !.log = out.log]
           /\ call' = [call EXCEPT !.op = "validate_file", !.result = out.result,
                                   !.args = [file_kind |-> file_kind,
                                             clear_report |-> clear_report],
                                   !.invoked = out.invoked]
    /\ UNCHANGED <<psv, pv, piv, fiv, fs>>

\* FileFormatValidator.validate_bag: the log is renewed, a bag_path that is
\* neither str nor Path is refused, else every payload file is validated
FileFormatValidator_validate_bag(bag_path_type) ==
    /\ call.component = "FileFormatValidator"
    /\ LET run == FFV_files_loop(ffv, fs.files, 1,
                                 [log |-> <<>>, exitcode |-> 0, invoked |-> <<>>])
       IN  IF bag_path_type \notin {"str", "Path"}
           THEN /\ ffv' = [ffv EXCEPT !.hasLog = TRUE, !.log = <<>>]
                /\ call' = [call EXCEPT !.op = "validate_bag",
                                        !.result = Raised("TypeError"),
                                        !.args = [bag_path_type |-> bag_path_type],
                                        !.invoked = <<>>]
           ELSE /\ ffv' = [ffv EXCEPT !.hasLog = TRUE,
                                      !.log = run.log \o FFV_summary(run.exitcode, TRUE)]
                /\ call' = [call EXCEPT !.op = "validate_bag",
                                        !.result = FFV_finalize_result(run.exitcode),
                                        !.args = [bag_path_type |-> bag_path_type],
                                        !.invoked = run.invoked]
    /\ UNCHANGED <<psv, pv, piv, fiv, fs>>

\* FileFormatValidator(list_of_validators) for selectors that are accepted
FFV_init(list_of_validators) ==
    [constructed |-> TRUE, validators |-> list_of_validators,
     hasLog |-> FALSE, log |-> <<>>]

\* the (selector, plugin) pairs that validators are constructed from
ValidatorTuples ==
    {t \in [selector : Selectors, plugin : PluginKinds] :
        t.selector.kind = "list" \/ t.plugin.verdict = (IF t.plugin.error THEN 1 ELSE 0)}

InitFormat ==
    /\ \E l \in SeqUpTo(ValidatorTuples, MaxPlugins) : ffv = FFV_init(l)
    /\ \E files \in SeqUpTo(FidoResults, MaxBagFiles) : fs = [files |-> files]
    /\ call = NoCall("FileFormatValidator")
    /\ psv = Absent /\ pv = Absent /\ piv = Absent /\ fiv = Absent

NextFormat ==
    \/ \E bag_path_type \in PathTypes :
           FileFormatValidator_validate_bag(bag_path_type)
    \/ \E file_kind \in {"str", "Path", "File"}, make_path_accepts \in BOOLEAN,
          clear_report \in BOOLEAN, log_summary \in BOOLEAN :
           FileFormatValidator_validate_file(file_kind, make_path_accepts,
                                             clear_report, log_summary)

SpecFormat == InitFormat /\ [][NextFormat]_vars

\* validate_bag only, called again and again
NextBagRun ==
    \E bag_path_type \in PathTypes : FileFormatValidator_validate_bag(bag_path_type)

SpecBagRun == InitFormat /\ [][NextBagRun]_vars

\* bags of identified files of two MIME types, and validators whose selectors
\* apply to one of the two only
application_pdf == <<"a", "/", "p">>

IdentifiedResults ==
    {[failed |-> FALSE, mimetype |-> m] : m \in {text_plain, application_pdf}}

NarrowSelectors ==
    {[kind |-> "list", types |-> {text_plain}, regex |-> <<>>],
     [kind |-> "str", types |-> {}, regex |-> <<"t", ".", "*">>]}

NarrowTuples ==
    {t \in [selector : NarrowSelectors, plugin : PluginKinds] :
        t.plugin.verdict = (IF t.plugin.error THEN 1 ELSE 0)}

InitSelection ==
    /\ \E l \in SeqUpTo(NarrowTuples, MaxPlugins) : ffv = FFV_init(l)
    /\ \E files \in SeqUpTo(IdentifiedResults, MaxBagFiles) : fs = [files |-> files]
    /\ call = NoCall("FileFormatValidator")
    /\ psv = Absent /\ pv = Absent /\ piv = Absent /\ fiv = Absent

SpecSelection == InitSelection /\ [][NextFormat]_vars

\* selectors of every shape: a list, a regex that matches text/plain as a
\* whole, a regex that matches a prefix of it only, and a tuple of types
ShapedSelectors ==
    {[kind |-> "list", types |-> {text_plain}, regex |-> <<>>],
     [kind |-> "str", types |-> {}, regex |-> <<"t", ".", "*">>],
     [kind |-> "str", types |-> {}, regex |-> <<"t", "/">>],
     [kind |-> "tuple", types |-> {text_plain}, regex |-> <<>>]}

ShapedTuples ==
    [selector : ShapedSelectors, plugin : {p \in PluginKinds : p.tag = "Pass"}]

\* FileFormatValidator(list_of_validators): a new validator replaces the one
\* under test, unless the constructor raises for a selector that is neither
\* a list nor a str
FileFormatValidator_init(list_of_validators) ==
    /\ call.component = "FileFormatValidator"
    /\ LET rejected == \E k \in DOMAIN list_of_validators :
                           list_of_validators[k].selector.kind \notin {"list", "str"}
       IN  /\ ffv' = IF rejected THEN ffv ELSE FFV_init(list_of_validators)
           /\ call' = [call EXCEPT !.op = "__init__",
                          !.result = IF rejected THEN Raised("ValueError") ELSE NoResult,
                          !.args = [list_of_validators |-> list_of_validators],
                          !.invoked = <<>>]
    /\ UNCHANGED <<psv, pv, piv, fiv, fs>>

InitSelectors ==
    /\ ffv = FFV_init(<<>>)
    /\ \E file \in IdentifiedResults : fs = [files |-> <<file>>]
    /\ call = NoCall("FileFormatValidator")
    /\ psv = Absent /\ pv = Absent /\ piv = Absent /\ fiv = Absent

NextSelectors ==
    \/ \E l \in SeqUpTo(ShapedTuples, MaxPlugins) : FileFormatValidator_init(l)
    \/ NextFormat

SpecSelectors == InitSelectors /\ [][NextSelectors]_vars

(***************************************************************************)
(* Two validations that run concurrently and use one plugin instance: each *)
(* is at a position of validate_file on its own file and has its own log;  *)
(* the plugin's attribute log is shared.  ffv holds the two logs, the      *)
(* positions and the plugin; fs holds the two files.                       *)
(***************************************************************************)
Validations == {1, 2}

\* validate_file_format, first statement: self.log = Logger(...)
plugin_renew_log(t) ==
    /\ call.component = "FileFormatValidator concurrent"
    /\ ffv.pc[t] = "selected"
    /\ ffv' = [ffv EXCEPT !.pc[t] = "renewed", !.plugin.log = <<>>]
    /\ UNCHANGED <<psv, pv, piv, fiv, fs, call>>

\* validate_file_format, the rest: the diagnostics about the file go to the
\* log that self.log is at that time, and the verdict is returned
plugin_log_and_return(t) ==
    /\ call.component = "FileFormatValidator concurrent"
    /\ ffv.pc[t] = "renewed"
    /\ LET out == validate_file_format(ffv.plugin.kind, FilePath(t), fs.files[t].mimetype)
       IN  ffv' = [ffv EXCEPT !.pc[t] = "returned",
                              !.plugin.log = ffv.plugin.log \o out.log]
    /\ UNCHANGED <<psv, pv, piv, fiv, fs, call>>

\* validate_file after the invocation: self.log.merge(validator_tuple[1].log)
engine_merge(t) ==
    /\ call.component = "FileFormatValidator concurrent"
    /\ ffv.pc[t] = "returned"
    /\ ffv' = [ffv EXCEPT !.pc[t] = "merged",
                          !.logs[t] = ffv.logs[t] \o ffv.plugin.log]
    /\ UNCHANGED <<psv, pv, piv, fiv, fs, call>>

\* a validation ends and the next file of that engine is taken up
engine_next_file(t) ==
    /\ call.component = "FileFormatValidator concurrent"
    /\ ffv.pc[t] = "merged"
    /\ ffv' = [ffv EXCEPT !.pc[t] = "selected", !.logs[t] = <<>>]
    /\ UNCHANGED <<psv, pv, piv, fiv, fs, call>>

InitConcurrent ==
    /\ \E kind \in PluginKinds :
           ffv = [constructed |-> TRUE,
                  plugin |-> [kind |-> kind, log |-> <<>>],
                  logs |-> [t \in Validations |-> <<>>],
                  pc |-> [t \in Validations |-> "selected"]]
    /\ \E files \in [Validations -> IdentifiedResults] : fs = [files |-> files]
    /\ call = NoCall("FileFormatValidator concurrent")
    /\ psv = Absent /\ pv = Absent /\ piv = Absent /\ fiv = Absent

NextConcurrent ==
    \E t \in Validations :
        \/ plugin_renew_log(t)
        \/ plugin_log_and_return(t)
        \/ engine_merge(t)
        \/ engine_next_file(t)

SpecConcurrent == InitConcurrent /\ [][NextConcurrent]_vars

(***************************************************************************)
(* JhovePlugin.  ffv holds the plugin with its log, fs what the jhove       *)
(* application gives for the file with either output format, and           *)
(* call.invoked the jhove commands that were run.                          *)
(***************************************************************************)
JHOVE_TAG == "JHOVE-Plugin"

MaxMessages == 2

\* FILETYPE_MODULES in the order of the dict, with text/plain under "",
\* image/gif under GIF-hul, image/tiff and image/tiff-fx under TIFF-hul
FILETYPE_MODULES ==
    <<[key |-> "", values |-> <<text_plain>>],
      [key |-> "GIF-hul", values |-> << <<"i", "/", "g">> >>],
      [key |-> "TIFF-hul", values |-> << <<"i", "/", "t">>,
                                        <<"i", "/", "t", "-", "f">> >>]>>

\* x in value for two strings: x is a substring of value
StrIn(x, value) ==
    \E i \in 0..(Len(value) - Len(x)) : SubSeq(value, i + 1, i + Len(x)) = x

\* _find_key_for_value: the first key with a value that has
\* search_value.lower() in it, or None
find_key_for_value(search_value) ==
    LET hits == {n \in DOMAIN FILETYPE_MODULES :
                    \E v \in DOMAIN FILETYPE_MODULES[n].values :
                        StrIn(Lower(search_value), FILETYPE_MODULES[n].values[v])}
    IN  IF hits = {} THEN [none |-> TRUE, key |-> ""]
        ELSE [none |-> FALSE,
              key |-> FILETYPE_MODULES[CHOOSE n \in hits : \A m \in hits : n <= m].key]

\* what a run of jhove gives: the process fails, its output cannot be
\* parsed, the document is a scalar (a number, null), the document is a
\* container without the jhove/repInfo structure, or it is a report with
\* messages, each given by its severity ("none": no severity key)
JhoveResponses ==
    {[kind |-> k, messages |-> <<>>] :
        k \in {"failed", "unparsable", "scalar", "no structure"}}
    \cup {[kind |-> "report", messages |-> m] :
              m \in SeqUpTo({"info", "error", "warning", "none"}, MaxMessages)}

\* the return value of _call_json and _call_xml: None, a JhoveResponseDict,
\* or the error that the parser raises
JhoveResult(kind, raised, info, error) ==
    [kind |-> kind, raised |-> raised, info |-> info, error |-> error]

\* _call_json
call_json(response) ==
    IF response.kind = "failed" THEN JhoveResult("none", "", <<>>, <<>>)
    ELSE IF response.kind = "unparsable"
    THEN JhoveResult("raise", "JSONDecodeError", <<>>, <<>>)
    ELSE IF response.kind = "scalar"
    THEN JhoveResult("raise", "TypeError", <<>>, <<>>)
    ELSE IF response.kind = "no structure"
    THEN JhoveResult("dict", "", <<>>, <<"bad response">>)
    ELSE JhoveResult("dict", "",
                     SelectSeq(response.messages, LAMBDA sev : sev = "info"),
                     SelectSeq(response.messages, LAMBDA sev : sev \notin {"info", "none"}))

\* _call_xml; xml_parse gives a dict or raises
call_xml(response) ==
    IF response.kind = "failed" THEN JhoveResult("none", "", <<>>, <<>>)
    ELSE IF response.kind = "unparsable"
    THEN JhoveResult("raise", "ExpatError", <<>>, <<>>)
    ELSE IF response.kind = "no structure"
    THEN JhoveResult("dict", "", <<>>, <<"bad response">>)
    ELSE JhoveResult("dict", "",
                     SelectSeq(response.messages, LAMBDA sev : sev = "info"),
                     SelectSeq(response.messages, LAMBDA sev : sev \notin {"info", "none"}))

\* _check_file: [result, commands]
check_file(jhove, module) ==
    LET json == call_json(jhove.json)
        xml == call_xml(jhove.xml)
        json_command == [format |-> "JSON", module |-> module]
        xml_command == [format |-> "XML", module |-> module]
    IN  IF json.kind # "none"
        THEN [result |-> json, commands |-> <<json_command>>]
        ELSE IF xml.kind # "none"
        THEN [result |-> xml, commands |-> <<json_command, xml_command>>]
        ELSE [result |-> JhoveResult("dict", "", <<>>, <<"unable to invoke jhove">>),
              commands |-> <<json_command, xml_command>>]

\* JhovePlugin.validate_file_format: [log, result, commands]
Jhove_validate_file_format(jhove, file_path, file_type) ==
    LET key == find_key_for_value(file_type)
        checked == check_file(jhove, key.key)
        result == checked.result
        infos == [i \in DOMAIN result.info |->
                     Entry("INFO", JHOVE_TAG, "message", file_path, <<>>)]
        errors == [i \in DOMAIN result.error |->
                      Entry("ERROR", JHOVE_TAG,
                            IF result.error[i] \in {"bad response", "unable to invoke jhove"}
                            THEN result.error[i] ELSE "message",
                            file_path, <<>>)]
    IN  IF key.none
        THEN [log |-> <<Entry("ERROR", JHOVE_TAG, "no suitable module found",
                              file_path, file_type)>>,
              result |-> Returned(1), commands |-> <<>>]
        ELSE IF result.kind = "raise"
        THEN [log |-> <<>>, result |-> Raised(result.raised),
              commands |-> checked.commands]
        ELSE IF Len(result.error) = 0
        THEN [log |-> infos \o <<Entry("INFO", JHOVE_TAG, "is well-formed",
                                        file_path, <<>>)>>,
              result |-> Returned(0), commands |-> checked.commands]
        ELSE [log |-> infos \o errors,
              result |-> Returned(1), commands |-> checked.commands]

\* the MIME types handed to the plugin: the listed ones, image/unknown,
\* "image/" and the empty string
JhoveTypes ==
    {text_plain, <<"i", "/", "g">>, <<"i", "/", "t">>, <<"i", "/", "t", "-", "f">>,
     <<"i", "/", "u">>, <<"i", "/">>, <<>>}

\* JhovePlugin.validate_file_format on the file of the disk
JhovePlugin_validate_file_format(file_type) ==
    /\ call.component = "JhovePlugin"
    /\ LET out == Jhove_validate_file_format(fs, FilePath(1), file_type)
       IN  /\ ffv' = [ffv EXCEPT !.log = out.log]
           /\ call' = [call EXCEPT !.op = "validate_file_format",
                                   !.result = out.result,
                                   !.args = [file_type |-> file_type],
                                   !.invoked = out.commands]
    /\ UNCHANGED <<psv, pv, piv, fiv, fs>>

\* the XML response matters only if the JSON call fails
InitJhove ==
    /\ ffv = [constructed |-> TRUE, hasLog |-> TRUE, log |-> <<>>]
    /\ \E json \in JhoveResponses, xml \in JhoveResponses :
           /\ json.kind # "failed" => xml.kind = "failed"
           /\ xml.kind # "scalar"
           /\ fs = [json |-> json, xml |-> xml]
    /\ call = NoCall("JhovePlugin")
    /\ psv = Absent /\ pv = Absent /\ piv = Absent /\ fiv = Absent

NextJhove == \E file_type \in JhoveTypes : JhovePlugin_validate_file_format(file_type)

SpecJhove == InitJhove /\ [][NextJhove]_vars

(***************************************************************************)
(* ProfileValidator                                                        *)
(***************************************************************************)
PV_TAG == "Profile Validator"

\* what bagit.Bag(bag_path) does with the directory: a bag, the BagError
\* "Expected bagit.txt does not exist", or another BagError
BagitOutcomes == {"ok", "missing bagit.txt", "other BagError"}

\* validate_bag that takes every BagError for a missing bagit.txt
instantiate_bag_catch_all(bag_path_type, bagit) ==
    IF bag_path_type \notin {"str", "Path"} THEN "TypeError"
    ELSE IF bagit = "ok" THEN "bag"
    ELSE "no bag"

\* the try block of validate_bag around bagit.Bag(bag_path): a bag, no bag
\* (the BagError about bagit.txt is caught), or the error that is raised
instantiate_bag(bag_path_type, bagit) ==
    IF bag_path_type \notin {"str", "Path"} THEN "TypeError"
    ELSE IF bagit = "other BagError" THEN "BagError"
    ELSE IF bagit = "missing bagit.txt" THEN "no bag"
    ELSE "bag"

\* a message handed to _fail: the check it comes from, the text, with or
\* without the bag's str() and ": " in front, and the tag and value it names
Message(check, bag_prefix, text, tag, value) ==
    [check |-> check, bag_prefix |-> bag_prefix, text |-> text,
     tag |-> tag, value |-> value]

\* messages of the checks of the bagit_profile library
ProfileMessages ==
    {Message("validate_bag_info", TRUE, "Required tag is not present", <<>>, <<>>),
     Message("later", FALSE, "Required manifest type is not present", <<>>, <<>>)}

\* what the checks of the library hand to _fail for the bag on disk: in
\* super().validate_bag_info, and in the checks that validate runs after it
ProfileFailures ==
    [bag_info : {<<>>} \cup {<<m>> : m \in {n \in ProfileMessages :
                                              n.check = "validate_bag_info"}},
     later : {<<>>} \cup {<<m>> : m \in {n \in ProfileMessages : n.check = "later"}}]

\* tags of bag-info.txt and of the profile's Bag-Info
Tag_Property == <<"P">>
Tag_property == <<"p">>
Tag_Other == <<"O">>

\* the description regex of the test, [0-9]*
description_digits == <<"\\d", "*">>

\* an entry of the profile's Bag-Info: the tag and its config
BagInfoConfig(tag, has_description, description) ==
    [tag |-> tag, has_description |-> has_description, description |-> description]

\* the profile's Bag-Info, in its order
ProfileBagInfos ==
    {<<BagInfoConfig(Tag_Property, TRUE, description_digits)>>,
     <<BagInfoConfig(Tag_Property, FALSE, <<>>)>>,
     <<BagInfoConfig(Tag_Property, TRUE, description_digits),
       BagInfoConfig(Tag_Other, TRUE, description_digits)>>}

\* a tag of bag-info.txt as bagit reads it: one value, or a list of values
Item(key, is_list, values) == [key |-> key, is_list |-> is_list, values |-> values]

\* bag-info.txt: whether the file is there, and bag.info in its order
BagInfoFiles ==
    {[present |-> FALSE, items |-> <<>>]}
    \cup {[present |-> TRUE, items |-> i] : i \in
            {<<>>,
             <<Item(Tag_Property, FALSE, <<<<"4">>>>)>>,
             <<Item(Tag_Property, FALSE, <<<<"4", "b">>>>)>>,
             <<Item(Tag_Property, TRUE, <<<<"4", "b">>, <<"4">>>>)>>,
             <<Item(Tag_Property, TRUE, <<<<"b">>, <<"b">>>>)>>,
             <<Item(Tag_property, FALSE, <<<<"b">>>>)>>,
             <<Item(Tag_Property, FALSE, <<<<"b">>>>),
               Item(Tag_property, FALSE, <<<<"4">>>>)>>,
             <<Item(Tag_Property, FALSE, <<<<>>>>),
               Item(Tag_Other, FALSE, <<<<"b">>>>)>>}}

\* normalize_tag of bagit_profile
normalize_tag(self, tag) == IF self.ignore_baginfo_tag_case THEN Lower(tag) ELSE tag

RECURSIVE PV_dict(_, _, _, _)
\* {self.normalize_tag(k): v for k, v in bag.info.items()} from item i on:
\* a later item takes the place of an earlier one with the same key
PV_dict(self, items, i, acc) ==
    IF i > Len(items) THEN acc
    ELSE LET k == normalize_tag(self, items[i].key)
         IN  PV_dict(self, items, i + 1,
                     [x \in DOMAIN acc \cup {k} |-> IF x = k THEN items[i] ELSE acc[x]])

\* bag_info of validate_bag_info
PV_bag_info(self, bag) == PV_dict(self, bag.info.items, 1, <<>>)

\* _fail appends the message to self.report.errors
PV_fail(report, msg) == [report EXCEPT !.errors = Append(report.errors, msg)]

RECURSIVE PV_fail_all(_, _, _)
PV_fail_all(report, failures, i) ==
    IF i > Len(failures) THEN report
    ELSE PV_fail_all(PV_fail(report, failures[i]), failures, i + 1)

RECURSIVE PV_description_values(_, _, _, _)
\* the loop over the values of a tag from value i on
PV_description_values(report, config, values, i) ==
    IF i > Len(values) THEN report
    ELSE PV_description_values(
             IF ~ReFullMatch(config.description, values[i])
             THEN PV_fail(report, Message("description", TRUE,
                                          "value is not allowed",
                                          config.tag, values[i]))
             ELSE report,
             config, values, i + 1)

RECURSIVE PV_description_tags(_, _, _, _, _)
\* the loop over self.profile["Bag-Info"] from tag t on
PV_description_tags(self, report, profile_bag_info, bag_info, t) ==
    IF t > Len(profile_bag_info) THEN report
    ELSE LET config == profile_bag_info[t]
             normalized_tag == normalize_tag(self, config.tag)
         IN  PV_description_tags(self,
                 IF config.has_description /\ normalized_tag \in DOMAIN bag_info
                 THEN PV_description_values(report, config,
                                            bag_info[normalized_tag].values, 1)
                 ELSE report,
                 profile_bag_info, bag_info, t + 1)

\* ProfileValidator.validate_bag_info: the report after it
validate_bag_info(self, bag, report) ==
    LET super == PV_fail_all(report, bag.failures.bag_info, 1)
        present == IF bag.info.present THEN super
                   ELSE PV_fail(super, Message("description", TRUE,
                                    "bag-info.txt is not present", <<>>, <<>>))
    IN  PV_description_tags(self, present, self.profile, PV_bag_info(self, bag), 1)

\* validate(bag) of bagit_profile: a new report, filled by _fail in
\* validate_bag_info and in the later checks
PV_validate(self, bag) ==
    PV_fail_all(validate_bag_info(self, bag, [none |-> FALSE, errors |-> <<>>]),
                bag.failures.later, 1)

\* x.replace(str(bag) + ": ", "") of a message
PV_shorten(msg) == msg.text

\* log.log(ERROR, body=list(map(..., self.report.errors)))
PV_report_entries(report) ==
    [i \in 1..Len(report.errors) |->
        Entry("ERROR", PV_TAG, PV_shorten(report.errors[i]),
              report.errors[i].tag, report.errors[i].value)]

\* validate_bag that leaves the profile check out after a failed
\* serialization check
PV_checks_stop_after_serialization(self, bag, test_serialization, test_profile) ==
    LET ser_log == IF ~test_serialization THEN <<>>
                   ELSE IF bag.serialization_ok
                   THEN <<Entry("INFO", PV_TAG, "POSITIVE_RESPONSE_SER", <<>>, <<>>)>>
                   ELSE <<Entry("INFO", PV_TAG, "NEGATIVE_RESPONSE_SER", <<>>, <<>>),
                          Entry("ERROR", PV_TAG, "NEGATIVE_RESPONSE_SER", <<>>, <<>>)>>
        ser_failed == test_serialization /\ ~bag.serialization_ok
        report == IF test_profile /\ ~ser_failed THEN PV_validate(self, bag) ELSE self.report
        pro_failed == test_profile /\ ~ser_failed /\ report.errors # <<>>
        pro_log == IF ~test_profile \/ ser_failed THEN <<>>
                   ELSE <<Entry("INFO", PV_TAG,
                                IF pro_failed THEN "NEGATIVE_RESPONSE_PRO"
                                ELSE "POSITIVE_RESPONSE_PRO", <<>>, <<>>)>>
        rep_log == IF report.none THEN <<>> ELSE PV_report_entries(report)
    IN  [log |-> ser_log \o pro_log \o rep_log,
         report |-> report,
         exitcode |-> IF ser_failed \/ pro_failed THEN 1 ELSE 0,
         error |-> IF ser_failed THEN "SerializationValidationError"
                   ELSE "ProfileValidationError"]

\* the part of validate_bag for a bag that was instantiated:
\* [log, report, exitcode, error]
PV_checks(self, bag, test_serialization, test_profile) ==
    LET ser_log == IF ~test_serialization THEN <<>>
                   ELSE IF bag.serialization_ok
                   THEN <<Entry("INFO", PV_TAG, "POSITIVE_RESPONSE_SER", <<>>, <<>>)>>
                   ELSE <<Entry("INFO", PV_TAG, "NEGATIVE_RESPONSE_SER", <<>>, <<>>),
                          Entry("ERROR", PV_TAG, "NEGATIVE_RESPONSE_SER", <<>>, <<>>)>>
        ser_failed == test_serialization /\ ~bag.serialization_ok
        report == IF test_profile THEN PV_validate(self, bag) ELSE self.report
        pro_failed == test_profile /\ report.errors # <<>>
        pro_log == IF ~test_profile THEN <<>>
                   ELSE <<Entry("INFO", PV_TAG,
                                IF pro_failed THEN "NEGATIVE_RESPONSE_PRO"
                                ELSE "POSITIVE_RESPONSE_PRO", <<>>, <<>>)>>
        rep_log == IF report.none THEN <<>> ELSE PV_report_entries(report)
    IN  [log |-> ser_log \o pro_log \o rep_log,
         report |-> report,
         exitcode |-> IF ser_failed \/ pro_failed THEN 1 ELSE 0,
         error |-> IF ser_failed THEN "SerializationValidationError"
                   ELSE "ProfileValidationError"]

\* ProfileValidator.validate_bag
ProfileValidator_validate_bag(bag_path_type, test_serialization, test_profile) ==
    /\ call.component = "ProfileValidator"
    /\ LET checks == PV_checks(pv, fs, test_serialization, test_profile)
           done(log, report, result) ==
               /\ pv' = [pv EXCEPT !.hasLog = TRUE, !.log = log, !.report = report]
               /\ call' = [call EXCEPT !.op = "validate_bag", !.result = result,
                              !.args = [bag_path_type |-> bag_path_type,
                                        test_serialization |-> test_serialization,
                                        test_profile |-> test_profile]]
           bag == instantiate_bag(bag_path_type, fs.bagit)
       IN  IF bag \in {"TypeError", "BagError"}
           THEN done(<<>>, pv.report, Raised(bag))
           ELSE IF bag = "no bag"
           THEN done(<<Entry("ERROR", PV_TAG, "NEGATIVE_RESPONSE_BAGITTXT", <<>>, <<>>),
                       Entry("INFO", PV_TAG, "NEGATIVE_RESPONSE_BAGITTXT_INFO", <<>>, <<>>)>>,
                     pv.report, Raised("ValidationError"))
           ELSE done(checks.log, checks.report,
                     IF checks.exitcode # 0 THEN Raised(checks.error)
                     ELSE Returned(checks.exitcode))
    /\ UNCHANGED <<psv, ffv, piv, fiv, fs>>

\* ProfileValidator(url, profile, ignore_baginfo_tag_case): no log and no
\* report yet
PV_init(profile_bag_info, ignore_baginfo_tag_case) ==
    [constructed |-> TRUE, profile |-> profile_bag_info,
     ignore_baginfo_tag_case |-> ignore_baginfo_tag_case,
     hasLog |-> FALSE, log |-> <<>>,
     report |-> [none |-> TRUE, errors |-> <<>>]]

\* the bags on disk for the ProfileValidator
ProfileBags ==
    [bagit : BagitOutcomes, serialization_ok : BOOLEAN, failures : ProfileFailures,
     info : BagInfoFiles]

InitProfile ==
    /\ \E profile_bag_info \in ProfileBagInfos, ignore_baginfo_tag_case \in BOOLEAN :
           pv = PV_init(profile_bag_info, ignore_baginfo_tag_case)
    /\ fs \in ProfileBags
    /\ call = NoCall("ProfileValidator")
    /\ psv = Absent /\ ffv = Absent /\ piv = Absent /\ fiv = Absent

NextProfile ==
    \E bag_path_type \in PathTypes, test_serialization \in BOOLEAN,
       test_profile \in BOOLEAN :
        ProfileValidator_validate_bag(bag_path_type, test_serialization, test_profile)

SpecProfile == InitProfile /\ [][NextProfile]_vars

\* validate_bag of the ProfileValidator was called on a bag that bagit could
\* instantiate
PV_Instantiated ==
    /\ call.component = "ProfileValidator"
    /\ call.op = "validate_bag"
    /\ call.args.bag_path_type \in {"str", "Path"}
    /\ fs.bagit = "ok"

RECURSIVE DeclaredValues(_, _)
\* the values that bag-info.txt declares for a tag of the profile, the case
\* of tag names being normalized if so configured
DeclaredValues(tag, i) ==
    IF i > Len(fs.info.items) THEN <<>>
    ELSE (IF normalize_tag(pv, fs.info.items[i].key) = normalize_tag(pv, tag)
          THEN fs.info.items[i].values ELSE <<>>)
         \o DeclaredValues(tag, i + 1)

\* the values named by the "value is not allowed" errors of the report for a tag
NotAllowed(tag) ==
    LET about(m) == m.text = "value is not allowed" /\ m.tag = tag
        errors == SelectSeq(pv.report.errors, about)
    IN  [i \in DOMAIN errors |-> errors[i].value]

\* C12: after a profile check the report holds exactly one "value is not
\* allowed" error for each declared value that does not fully match the
\* description of its tag, over the profile tags with a description that are
\* present in the bag's tags, and none for other tags and values; the call
\* raises nothing but its validation errors.
C12_DescriptionErrorsExact ==
    (PV_Instantiated /\ call.args.test_profile) =>
        /\ \A t \in DOMAIN pv.profile :
               LET config == pv.profile[t]
                   bad(v) == ~ReFullMatch(config.description, v)
               IN  NotAllowed(config.tag) =
                       IF config.has_description
                       THEN SelectSeq(DeclaredValues(config.tag, 1), bad)
                       ELSE <<>>
        /\ call.result.kind = "raise" =>
               call.result.error \in {"SerializationValidationError",
                                      "ProfileValidationError"}

PIV_TAG == "Payload Integrity Validator"

\* how a validation step of bagit ends on the bag: without error, with a
\* ValueError, or with a BagError whose str() has these lines
StepOutcomes ==
    {[kind |-> "ok", lines |-> <<>>],
     [kind |-> "ValueError", lines |-> <<>>],
     [kind |-> "BagError", lines |-> <<"Payload-Oxum validation failed">>],
     [kind |-> "BagError",
      lines |-> <<"exists in manifest but was not found on filesystem",
                  "md5 validation failed">>]}

\* what one validation step adds to the log
PIV_step_log(outcome) ==
    IF outcome.kind = "ok" THEN <<>>
    ELSE IF outcome.kind = "ValueError"
    THEN <<Entry("ERROR", PIV_TAG, "Bad input for some internal bagit-method.",
                 <<>>, <<>>)>>
    ELSE [i \in 1..Len(outcome.lines) |->
             Entry("ERROR", PIV_TAG, outcome.lines[i], <<>>, <<>>)]

RECURSIVE PIV_steps_stop_at_failure(_, _)
\* a loop over the validation steps that ends with the first failing step
PIV_steps_stop_at_failure(steps, i) ==
    IF i > Len(steps) THEN [log |-> <<>>, thisexitcode |-> 0]
    ELSE IF steps[i].kind # "ok"
    THEN [log |-> PIV_step_log(steps[i]), thisexitcode |-> 1]
    ELSE PIV_steps_stop_at_failure(steps, i + 1)

RECURSIVE PIV_steps(_, _)
\* the loop over the validation steps from step i on: [log, thisexitcode]
PIV_steps(steps, i) ==
    IF i > Len(steps) THEN [log |-> <<>>, thisexitcode |-> 0]
    ELSE LET rest == PIV_steps(steps, i + 1)
         IN  [log |-> PIV_step_log(steps[i]) \o rest.log,
              thisexitcode |-> IF steps[i].kind # "ok" THEN 1 ELSE rest.thisexitcode]

\* PayloadIntegrityValidator.validate_bag
PayloadIntegrityValidator_validate_bag(bag_path_type) ==
    /\ call.component = "PayloadIntegrityValidator"
    /\ LET run == PIV_steps(fs.steps, 1)
           done(log, result) ==
               /\ piv' = [piv EXCEPT !.hasLog = TRUE, !.log = log]
               /\ call' = [call EXCEPT !.op = "validate_bag", !.result = result,
                              !.args = [bag_path_type |-> bag_path_type]]
           bag == instantiate_bag(bag_path_type, fs.bagit)
       IN  IF bag \in {"TypeError", "BagError"}
           THEN done(<<>>, Raised(bag))
           ELSE IF bag = "no bag"
           THEN done(<<Entry("ERROR", PIV_TAG, "NEGATIVE_RESPONSE_BAGITTXT", <<>>, <<>>),
                       Entry("INFO", PIV_TAG, "NEGATIVE_RESPONSE_BAGITTXT_INFO", <<>>, <<>>)>>,
                     Raised("PayloadIntegrityValidationError"))
           ELSE done(run.log \o <<Entry("INFO", PIV_TAG,
                                        IF run.thisexitcode = 0 THEN "POSITIVE_RESPONSE"
                                        ELSE "NEGATIVE_RESPONSE", <<>>, <<>>)>>,
                     IF run.thisexitcode # 0
                     THEN Raised("PayloadIntegrityValidationError")
                     ELSE Returned(0))
    /\ UNCHANGED <<psv, ffv, pv, fiv, fs>>

PIV_init == [constructed |-> TRUE, hasLog |-> FALSE, log |-> <<>>]

\* the bags on disk for the PayloadIntegrityValidator: the three steps are
\* _validate_contents, _validate_completeness, _validate_entries
IntegrityBags == [bagit : BagitOutcomes, steps : [1..3 -> StepOutcomes]]

InitIntegrity ==
    /\ piv = PIV_init
    /\ fs \in IntegrityBags
    /\ call = NoCall("PayloadIntegrityValidator")
    /\ psv = Absent /\ ffv = Absent /\ pv = Absent /\ fiv = Absent

NextIntegrity ==
    \E bag_path_type \in PathTypes : PayloadIntegrityValidator_validate_bag(bag_path_type)

SpecIntegrity == InitIntegrity /\ [][NextIntegrity]_vars

(***************************************************************************)
(* FileIntegrityValidator                                                  *)
(***************************************************************************)
FIV_TAG == "Object Checksum Validator"

SUPPORTED_HASHING_METHODS == {"md5", "sha1", "sha256", "sha512"}

\* an optional argument: None (of a method name, of a digest), or a value
NoMethod == [none |-> TRUE, s |-> ""]
None == [none |-> TRUE, s |-> <<>>]
Some(s) == [none |-> FALSE, s |-> s]
\* "x or y" of Python for optional strings: x unless it is None or empty
Or(x, y) == IF x.none \/ x.s = <<>> THEN y ELSE x

\* the contents a file can have
Contents == {"x", "y"}

\* hash_from_bytes: the hex digest, lower-case, one per method and content
hash_from_bytes(method_id, data) ==
    <<CASE method_id = "md5" -> "a" [] method_id = "sha1" -> "b"
        [] method_id = "sha256" -> "c" [] OTHER -> "d",
      IF data = "x" THEN "1" ELSE "e">>

\* hash_from_file: path.read_bytes() is hashed
hash_from_file(method_id, file) == hash_from_bytes(method_id, file.content)

\* the methods and expected values given to the constructor and to validate_file
MethodArgs == {NoMethod, Some("md5"), Some("sha256"), Some("crc32")}
ValueArgs == {None, Some(<<>>), Some(<<"a", "1">>), Some(<<"A", "1">>),
              Some(<<"a", "e">>), Some(<<"c", "E">>), Some(<<"a", "1", "a">>)}

\* _get_method without the test of the method against
\* SUPPORTED_HASHING_METHODS
FIV_get_method_unchecked(self_method, method, accept_none) ==
    IF ~accept_none /\ method.none /\ self_method.none
    THEN [error |-> TRUE, method |-> NoMethod]
    ELSE [error |-> FALSE,
          method |-> IF method.none \/ method.s = "" THEN self_method ELSE method]

\* _get_method: [error, method]
FIV_get_method(self_method, method, accept_none) ==
    IF ~accept_none /\ method.none /\ self_method.none
    THEN [error |-> TRUE, method |-> NoMethod]
    ELSE IF ~method.none /\ method.s \notin SUPPORTED_HASHING_METHODS
    THEN [error |-> TRUE, method |-> NoMethod]
    ELSE [error |-> FALSE,
          method |-> IF method.none \/ method.s = "" THEN self_method ELSE method]

\* validate_file(file_path, method=..., value=...): [log, result]
FIV_validate_file(self, file_kind, file, method, value) ==
    LET m == FIV_get_method(self.method, method, FALSE)
        v == Or(value, self.value)
        hashed == hash_from_file(m.method.s, file)
    IN  IF m.error \/ v.none THEN [log |-> <<>>, result |-> Raised("ValueError")]
        ELSE IF file_kind # "Path"
        THEN [log |-> <<>>, result |-> Raised("AttributeError")]
        ELSE IF hashed = v.s
        THEN [log |-> <<Entry("INFO", FIV_TAG, "POSITIVE_RESPONSE", <<>>, <<>>)>>,
              result |-> Returned(0)]
        ELSE [log |-> <<Entry("INFO", FIV_TAG, "NEGATIVE_RESPONSE", <<>>, <<>>),
                        Entry("ERROR", FIV_TAG, "ERROR_DETAIL_RESPONSE", v.s, hashed)>>,
              result |-> Raised("PayloadIntegrityValidationError")]

\* FileIntegrityValidator.validate_file
FileIntegrityValidator_validate_file(file_kind, method, value) ==
    /\ call.component = "FileIntegrityValidator"
    /\ LET out == FIV_validate_file(fiv, file_kind, fs, method, value)
       IN  /\ fiv' = [fiv EXCEPT !.hasLog = TRUE, !.log = out.log]
           /\ call' = [call EXCEPT !.op = "validate_file", !.result = out.result,
                          !.args = [file_kind |-> file_kind, method |-> method,
                                    value |-> value]]
    /\ UNCHANGED <<psv, ffv, pv, piv, fs>>

\* FileIntegrityValidator(method, value) for a method the constructor accepts
FIV_init(method, value) ==
    [constructed |-> TRUE, method |-> FIV_get_method(NoMethod, method, TRUE).method,
     value |-> value, hasLog |-> FALSE, log |-> <<>>]

\* FileIntegrityValidator(method, value): a new validator replaces the one
\* under test, unless the constructor raises
FileIntegrityValidator_init(method, value) ==
    /\ call.component = "FileIntegrityValidator"
    /\ LET m == FIV_get_method(NoMethod, method, TRUE)
       IN  /\ fiv' = IF m.error THEN fiv ELSE FIV_init(method, value)
           /\ call' = [call EXCEPT !.op = "__init__",
                          !.result = IF m.error THEN Raised("ValueError") ELSE NoResult,
                          !.args = [file_kind |-> "none", method |-> method,
                                    value |-> value]]
    /\ UNCHANGED <<psv, ffv, pv, piv, fs>>

InitFile ==
    /\ \E method \in MethodArgs, value \in ValueArgs :
           /\ ~FIV_get_method(NoMethod, method, TRUE).error
           /\ fiv = FIV_init(method, value)
    /\ \E content \in Contents : fs = [content |-> content]
    /\ call = NoCall("FileIntegrityValidator")
    /\ psv = Absent /\ ffv = Absent /\ pv = Absent /\ piv = Absent

NextFile ==
    \/ \E file_kind \in {"str", "Path"}, method \in MethodArgs, value \in ValueArgs :
           FileIntegrityValidator_validate_file(file_kind, method, value)
    \/ \E method \in MethodArgs, value \in ValueArgs :
           FileIntegrityValidator_init(method, value)

SpecFile == InitFile /\ [][NextFile]_vars

(***************************************************************************)
(* All validators: a behaviour constructs one of them and calls it         *)
(***************************************************************************)
Init == InitStructure \/ InitCapitalization \/ InitFormat \/ InitProfile \/ InitIntegrity \/ InitFile

Next == NextStructure \/ NextFormat \/ NextProfile \/ NextIntegrity \/ NextFile

Spec == Init /\ [][Next]_vars

\* the validator under test
Validator ==
    CASE call.component = "PayloadStructureValidator" -> psv
      [] call.component = "FileFormatValidator" -> ffv
      [] call.component = "ProfileValidator" -> pv
      [] call.component = "PayloadIntegrityValidator" -> piv
      [] call.component = "FileIntegrityValidator" -> fiv

\* the validation errors of errors.py that a component raises
ValidationErrors ==
    CASE call.component = "PayloadStructureValidator" ->
             {"PayloadStructureValidationError"}
      [] call.component = "FileFormatValidator" -> {"FileFormatValidationError"}
      [] call.component = "ProfileValidator" ->
             {"ValidationError", "SerializationValidationError",
              "ProfileValidationError"}
      [] call.component = "PayloadIntegrityValidator" ->
             {"PayloadIntegrityValidationError"}
      [] call.component = "FileIntegrityValidator" ->
             {"PayloadIntegrityValidationError"}

\* the call ended with a verdict: a return value or a validation error
EndedWithVerdict ==
    /\ call.op \in {"validate_bag", "validate_file"}
    /\ call.result.kind = "raise" => call.result.error \in ValidationErrors

\* the call ended as failed
EndedFailed ==
    IF call.result.kind = "raise" THEN TRUE ELSE call.result.value # 0

\* C1: a call of a validate method that ends with a verdict either returns 0
\* or fails with a validation error of its component: whatever the input, no
\* call returns a non-zero exit code to its caller.
C1_ReturnsZeroOrRaisesValidationError ==
    EndedWithVerdict =>
        \/ call.result = Returned(0)
        \/ /\ call.result.kind = "raise"
           /\ call.result.error \in ValidationErrors

\* C2: a call that ends with a verdict ends as failed exactly if the log of
\* the validator holds at least one Error at the end of the call.
C2_FailedIffErrorLogged ==
    EndedWithVerdict => (EndedFailed <=> HasError(Validator.log))

\* the validators that instantiate the bag with bagit
InitBagit == InitProfile \/ InitIntegrity

NextBagit == NextProfile \/ NextIntegrity

SpecBagit == InitBagit /\ [][NextBagit]_vars

\* the entries of a log with a context
WithContext(log, context) == {i \in DOMAIN log : log[i].context = context}

CallMethod == IF call.args.method.none THEN fiv.method ELSE call.args.method
CallValue == IF call.args.value.none THEN fiv.value ELSE call.args.value

\* validate_file of the FileIntegrityValidator was called with a supported
\* method and an expected value
FIV_Compares ==
    /\ call.component = "FileIntegrityValidator"
    /\ call.op = "validate_file"
    /\ ~CallMethod.none /\ CallMethod.s \in SUPPORTED_HASHING_METHODS
    /\ ~CallValue.none

\* C15: for every file, supported method and expected value validate_file
\* returns 0 iff the digest of the file equals the expected value; otherwise
\* it raises PayloadIntegrityValidationError after logging exactly one Error,
\* which names the expected and the actual digest.
C15_ReturnsZeroIffDigestEqual ==
    FIV_Compares =>
        LET actual == hash_from_bytes(CallMethod.s, fs.content)
            errors == WithContext(fiv.log, "ERROR")
        IN  IF actual = CallValue.s
            THEN call.result = Returned(0) /\ errors = {}
            ELSE /\ call.result = Raised("PayloadIntegrityValidationError")
                 /\ Cardinality(errors) = 1
                 /\ \A i \in errors : /\ fiv.log[i].arg1 = CallValue.s
                                      /\ fiv.log[i].arg2 = actual

\* C16: an expected digest that equals the recomputed digest up to the letter
\* case of its hex characters is accepted: validate_file returns 0.
C16_ComparisonIgnoresCase ==
    ( /\ FIV_Compares
      /\ call.args.file_kind = "Path"
      /\ CallValue.s # <<>>
      /\ Lower(CallValue.s) = Lower(hash_from_bytes(CallMethod.s, fs.content)) )
        => call.result = Returned(0)

\* the last call named a method outside SUPPORTED_HASHING_METHODS
FIV_UnsupportedMethod ==
    /\ call.component = "FileIntegrityValidator"
    /\ call.op \in {"__init__", "validate_file"}
    /\ ~call.args.method.none
    /\ call.args.method.s \notin SUPPORTED_HASHING_METHODS

\* the last call was validate_file with no method or no expected value, neither
\* in the call nor from the constructor
FIV_MissingArgument ==
    /\ call.component = "FileIntegrityValidator"
    /\ call.op = "validate_file"
    /\ \/ call.args.method.none /\ fiv.method.none
       \/ call.args.value.none /\ fiv.value.none

\* C17: a method name outside SUPPORTED_HASHING_METHODS, given to the
\* constructor or to validate_file, ends the call with ValueError, never with
\* PayloadIntegrityValidationError, and leaves no entry in the log (a rejected
\* construction leaves the existing validator as it was); validate_file
\* without a method or without an expected value ends with ValueError too.
C17_UnsupportedMethodIsValueError ==
    [][ /\ FIV_UnsupportedMethod' =>
            /\ call'.result = Raised("ValueError")
            /\ IF call'.op = "__init__" THEN fiv' = fiv ELSE fiv'.log = <<>>
        /\ FIV_MissingArgument' =>
            /\ call'.result = Raised("ValueError")
            /\ fiv'.log = <<>> ]_vars

\* validate_file was called with an unsupported method on a file whose digest
\* differs from the expected value
C17_Witness ==
    /\ FIV_UnsupportedMethod
    /\ call.op = "validate_file"
    /\ call.args.file_kind = "Path"
    /\ ~CallValue.none
    /\ fiv.hasLog /\ fiv.log = <<>>
    /\ call.result = Raised("ValueError")

\* validate_bag of the PayloadIntegrityValidator was called on a bag that
\* bagit instantiates
PIV_Instantiated ==
    /\ call.component = "PayloadIntegrityValidator"
    /\ call.op = "validate_bag"
    /\ call.args.bag_path_type \in {"str", "Path"}
    /\ fs.bagit = "ok"

\* the number of Errors that a validation step ending this way has to leave
StepErrorCount(outcome) ==
    IF outcome.kind = "ok" THEN 0
    ELSE IF outcome.kind = "ValueError" THEN 1
    ELSE Len(outcome.lines)

\* the log has an Error with this message
HasErrorMessage(log, msg) == \E i \in WithContext(log, "ERROR") : log[i].msg = msg

\* C18: on an instantiable bag validate_bag of the PayloadIntegrityValidator
\* runs all three validation steps, whatever the earlier ones gave, and the
\* log has the Errors of every failing step: a failed Payload-Oxum step and a
\* failed completeness step both show in the log of the same call; the call
\* raises PayloadIntegrityValidationError iff a step failed, returns 0 if not.
C18_AllStepsAccumulate ==
    PIV_Instantiated =>
        /\ \A i \in 1..3 :
               /\ fs.steps[i].kind = "BagError" =>
                      \A k \in 1..Len(fs.steps[i].lines) :
                          HasErrorMessage(piv.log, fs.steps[i].lines[k])
               /\ fs.steps[i].kind = "ValueError" =>
                      HasErrorMessage(piv.log, "Bad input for some internal bagit-method.")
        /\ Cardinality(WithContext(piv.log, "ERROR"))
               = StepErrorCount(fs.steps[1]) + StepErrorCount(fs.steps[2])
                     + StepErrorCount(fs.steps[3])
        /\ IF \E i \in 1..3 : fs.steps[i].kind # "ok"
           THEN call.result = Raised("PayloadIntegrityValidationError")
           ELSE call.result = Returned(0)

\* a call on a bag with a deleted manifested file: the Payload-Oxum step and
\* the completeness step fail, and both Errors are in the log
C18_Witness ==
    /\ PIV_Instantiated
    /\ fs.steps[1].lines = <<"Payload-Oxum validation failed">>
    /\ fs.steps[2].kind = "BagError" /\ Len(fs.steps[2].lines) = 2
    /\ HasErrorMessage(piv.log, "Payload-Oxum validation failed")
    /\ HasErrorMessage(piv.log, "exists in manifest but was not found on filesystem")
    /\ call.result = Raised("PayloadIntegrityValidationError")

\* the files that the last call of the FileFormatValidator went through:
\* validate_bag every file of the bag, validate_file the file it was given,
\* if it was given as a Path and the validator had a log
FFV_Visited ==
    IF call.component # "FileFormatValidator" THEN {}
    ELSE IF call.op = "validate_bag" /\ call.args.bag_path_type \in {"str", "Path"}
    THEN DOMAIN fs.files
    ELSE IF /\ call.op = "validate_file"
            /\ call.args.file_kind = "Path"
            /\ call.result # Raised("AttributeError")
    THEN {1}
    ELSE {}

\* the identification tool gave no MIME type for the file: it failed, or it
\* ended successfully with empty output
NoMimeType(fido) == fido.failed \/ fido.mimetype = <<>>

\* the entries of the log about a file
AboutFile(log, i) == {j \in DOMAIN log : log[j].arg1 = FilePath(i)}

\* C19: for a file without MIME type from the identification, whether the
\* tool failed or ended successfully with empty output, the engine logs an
\* Error for the file, no plugin leaves an entry about it, and the call ends
\* as failed.
C19_UnidentifiedFileFails ==
    \A i \in FFV_Visited :
        NoMimeType(fs.files[i]) =>
            /\ \E j \in AboutFile(ffv.log, i) : /\ ffv.log[j].context = "ERROR"
                                                /\ ffv.log[j].origin = FFV_TAG
            /\ \A j \in AboutFile(ffv.log, i) : ffv.log[j].origin = FFV_TAG
            /\ EndedFailed

\* the entries that the last call of the FileFormatValidator added to the log
FFV_Added ==
    IF call'.op = "validate_file" /\ ~call'.args.clear_report
    THEN SubSeq(ffv'.log, Len(ffv.log) + 1, Len(ffv'.log))
    ELSE ffv'.log

\* the number of entries about a file with a context and an origin
CountEntries(entries, i, context, origin) ==
    Cardinality({j \in DOMAIN entries : /\ entries[j].arg1 = FilePath(i)
                                        /\ entries[j].context = context
                                        /\ entries[j].origin = origin})

\* the registered validators with a plugin tag whose selector applies, or
\* does not apply, to the MIME type of a file
Registered(validators, tag, fido, applies) ==
    {k \in DOMAIN validators :
        /\ validators[k].plugin.tag = tag
        /\ selector_matches(validators[k].selector, fido.mimetype) = applies}

FFV_BagValidated ==
    /\ call.component = "FileFormatValidator"
    /\ call.op = "validate_bag"
    /\ call.args.bag_path_type \in {"str", "Path"}

\* a registered plugin whose selector applies to the file's MIME type gives a
\* failing verdict
FailingVerdict(validators, fido) ==
    \E k \in DOMAIN validators :
        /\ selector_matches(validators[k].selector, fido.mimetype)
        /\ validators[k].plugin.verdict # 0

\* C21: validate_bag of the FileFormatValidator raises
\* FileFormatValidationError iff a payload file has no MIME type from the
\* identification or gets a failing verdict from a plugin whose selector
\* applies; otherwise it returns 0.
C21_BagFailsIffSomeFileFails ==
    FFV_BagValidated =>
        IF \E i \in DOMAIN fs.files :
               \/ NoMimeType(fs.files[i])
               \/ FailingVerdict(ffv.validators, fs.files[i])
        THEN call.result = Raised("FileFormatValidationError")
        ELSE call.result = Returned(0)

RECURSIVE SelectedFrom(_, _, _)
\* the registered validators from index k on whose selector applies to a
\* MIME type, in registration order
SelectedFrom(validators, k, file_type) ==
    IF k > Len(validators) THEN <<>>
    ELSE (IF selector_matches(validators[k].selector, file_type) THEN <<k>> ELSE <<>>)
         \o SelectedFrom(validators, k + 1, file_type)

\* the calls of validate_file_format on a file during the last call
InvokedOn(i) ==
    LET on_file(invocation) == invocation.file_path = FilePath(i)
    IN  SelectSeq(call.invoked, on_file)

SelectsByShape(selector, file_type) ==
    \/ selector.kind = "list" /\ file_type \in selector.types
    \/ selector.kind = "str" /\ ReFullMatch(selector.regex, file_type)

\* C23: a list selector selects a MIME type iff the type is an element of it,
\* a str selector iff the whole type matches it as a regex: the plugins
\* invoked on an identified file are those selected this way; a selector of
\* another shape makes the constructor raise ValueError, so no validator with
\* such a selector ever validates a file.
C23_SelectorByShape ==
    [][ /\ \A i \in FFV_Visited' :
               ~NoMimeType(fs.files[i]) =>
                   {InvokedOn(i)'[n].index : n \in DOMAIN InvokedOn(i)'}
                       = {k \in DOMAIN ffv.validators :
                             SelectsByShape(ffv.validators[k].selector,
                                            fs.files[i].mimetype)}
        /\ call'.op = "__init__" =>
               LET l == call'.args.list_of_validators
               IN  IF \E k \in DOMAIN l : l[k].selector.kind \notin {"list", "str"}
                   THEN call'.result = Raised("ValueError") /\ ffv' = ffv
                   ELSE call'.result = NoResult /\ ffv'.validators = l
        /\ \A k \in DOMAIN ffv'.validators :
               ffv'.validators[k].selector.kind \in {"list", "str"} ]_vars

\* a file of type text/plain went through a validator with a regex that
\* matches a prefix of the type only: its plugin was not invoked; and a
\* construction with a selector of another shape was refused
C23_Witness ==
    /\ call.component = "FileFormatValidator"
    /\ call.op = "validate_file"
    /\ FFV_Visited = {1}
    /\ fs.files[1].mimetype = text_plain
    /\ Len(ffv.validators) = 2
    /\ ffv.validators[1].selector.regex = <<"t", "/">>
    /\ ffv.validators[2].selector.regex = <<"t", ".", "*">>
    /\ Len(call.invoked) = 1 /\ call.invoked[1].index = 2

\* C24: validate_file of the FileFormatValidator, called with the file as a
\* str, as a Path or as a File object and with a fresh log, validates the file
\* and ends with a verdict: it returns, or it raises
\* FileFormatValidationError, and no other error.
C24_AcceptsStrPathFile ==
    ( /\ call.component = "FileFormatValidator"
      /\ call.op = "validate_file"
      /\ call.args.file_kind \in {"str", "Path", "File"}
      /\ call.args.clear_report )
        => \/ call.result.kind = "return"
           \/ call.result = Raised("FileFormatValidationError")

\* C25: when two validations that run concurrently use one plugin instance,
\* the diagnostics that a validation merges after its invocation are those of
\* its own invocation, under every interleaving.
C25_MergedDiagnosticsAreOwn ==
    call.component = "FileFormatValidator concurrent" =>
        \A t \in Validations :
            ffv.pc[t] = "merged" =>
                ffv.logs[t] = validate_file_format(ffv.plugin.kind, FilePath(t),
                                                   fs.files[t].mimetype).log

\* C26: the log at the end of a call holds only diagnostics of that call.
\* For validate_bag of the ProfileValidator with test_profile = False on an
\* instantiated bag these are the diagnostics of the serialization check:
\* no error of an earlier call's profile check is in the log.
C26_NoReportCarriedOver ==
    (PV_Instantiated /\ ~call.args.test_profile) =>
        \A i \in DOMAIN pv.log :
            pv.log[i].msg \in {"POSITIVE_RESPONSE_SER", "NEGATIVE_RESPONSE_SER"}

\* C27: validate_file of the FileIntegrityValidator leaves self.method and
\* self.value as they are, whether it ends well or not, and it uses the
\* method and the expected value given in the call, those of the constructor
\* for an argument that is not given: on a Path with a supported method and
\* an expected value it returns 0 exactly if the digest under that method
\* equals that value.
C27_OverrideForOneCall ==
    [][ (call.component = "FileIntegrityValidator" /\ call'.op = "validate_file") =>
            /\ fiv'.method = fiv.method
            /\ fiv'.value = fiv.value
            /\ (FIV_Compares' /\ call'.args.file_kind = "Path") =>
                   (call'.result = Returned(0)
                        <=> hash_from_bytes(CallMethod'.s, fs.content) = CallValue'.s) ]_vars

\* the number of entries that validate_file has to leave about a file: one
\* Error if fido failed, else one Warning per validator whose selector does
\* not apply and the Errors of the plugins whose selector applies
EntriesDue(validators, fido) ==
    IF fido.failed THEN 1
    ELSE Cardinality({k \in DOMAIN validators :
                         \/ ~selector_matches(validators[k].selector, fido.mimetype)
                         \/ validators[k].plugin.error})

\* the summary entries of a log of the FileFormatValidator
Summaries(log) ==
    {j \in DOMAIN log : /\ log[j].context = "INFO"
                        /\ log[j].origin = FFV_TAG
                        /\ log[j].msg \in {"POSITIVE_RESPONSE", "NEGATIVE_RESPONSE"}}

\* C28: validate_bag of the FileFormatValidator goes through every payload
\* file once, whatever the earlier files gave: the log has the diagnostics
\* of every file, once, the plugins whose selector applies are invoked once
\* on every file that fido gave a type for, and the summary Info is logged
\* once, as the last entry.
C28_EveryFileOnceThenSummary ==
    FFV_BagValidated =>
        /\ \A i \in DOMAIN fs.files :
               /\ Cardinality(AboutFile(ffv.log, i)) = EntriesDue(ffv.validators, fs.files[i])
               /\ Len(InvokedOn(i)) =
                      IF fs.files[i].failed THEN 0
                      ELSE Len(SelectedFrom(ffv.validators, 1, fs.files[i].mimetype))
        /\ Summaries(ffv.log) = {Len(ffv.log)}

\* validate_bag on a bag whose first file could not be identified and whose
\* second file got a failing verdict: both files left their Error
C28_Witness ==
    /\ FFV_BagValidated
    /\ Len(fs.files) = 2
    /\ fs.files[1].failed
    /\ ~NoMimeType(fs.files[2])
    /\ \E j \in AboutFile(ffv.log, 1) : ffv.log[j].context = "ERROR"
    /\ \E j \in AboutFile(ffv.log, 2) : ffv.log[j].context = "ERROR"
    /\ Len(InvokedOn(2)) > 0
    /\ call.result = Raised("FileFormatValidationError")

\* the MIME types listed in FILETYPE_MODULES
ListedTypes ==
    UNION {{FILETYPE_MODULES[n].values[v] : v \in DOMAIN FILETYPE_MODULES[n].values} :
              n \in DOMAIN FILETYPE_MODULES}

\* the module under which a listed type is listed
ListedUnder(type) ==
    FILETYPE_MODULES[CHOOSE n \in DOMAIN FILETYPE_MODULES :
                        \E v \in DOMAIN FILETYPE_MODULES[n].values :
                            FILETYPE_MODULES[n].values[v] = type].key

Jhove_Validated == call.component = "JhovePlugin" /\ call.op = "validate_file_format"

\* C30: for a MIME type that is not listed in FILETYPE_MODULES,
\* validate_file_format returns 1, logs exactly one Error ("no suitable
\* module found") and runs no jhove command; for a listed type every jhove
\* command is run with the module under which the type is listed.
C30_ModuleOnlyForListedType ==
    Jhove_Validated =>
        IF call.args.file_type \notin ListedTypes
        THEN /\ call.result = Returned(1)
             /\ call.invoked = <<>>
             /\ Len(Errors(ffv.log)) = 1
             /\ Errors(ffv.log)[1].msg = "no suitable module found"
        ELSE /\ call.invoked # <<>>
             /\ \A i \in DOMAIN call.invoked :
                    call.invoked[i].module = ListedUnder(call.args.file_type)

\* the response that validate_file_format evaluates: the one with JSON output
\* unless that call failed as a process
JhoveEvaluated == IF fs.json.kind = "failed" THEN fs.xml ELSE fs.json

JhoveInfoLines == SelectSeq(ffv.log, LAMBDA e : e.context = "INFO" /\ e.msg = "message")

\* C29: for a listed type jhove is run with JSON output first and with XML
\* output only if the JSON call failed as a process.  If both calls fail
\* the verdict is 1 with exactly one Error ("unable to invoke jhove"); a
\* response without a jhove/repInfo structure gives verdict 1 with one "bad
\* response" Error; otherwise the verdict is 1 iff some message has a
\* severity other than info, with one Error per such message and one Info
\* per info message.
C29_JsonThenXmlAndVerdict ==
    (Jhove_Validated /\ call.args.file_type \in ListedTypes) =>
        /\ Len(call.invoked) >= 1
        /\ call.invoked[1].format = "JSON"
        /\ IF fs.json.kind = "failed"
           THEN Len(call.invoked) = 2 /\ call.invoked[2].format = "XML"
           ELSE Len(call.invoked) = 1
        /\ IF JhoveEvaluated.kind = "failed"
           THEN /\ call.result = Returned(1)
                /\ Len(Errors(ffv.log)) = 1
                /\ Errors(ffv.log)[1].msg = "unable to invoke jhove"
           ELSE IF JhoveEvaluated.kind # "report"
           THEN /\ call.result = Returned(1)
                /\ Len(Errors(ffv.log)) = 1
                /\ Errors(ffv.log)[1].msg = "bad response"
           ELSE LET severe == SelectSeq(JhoveEvaluated.messages,
                                        LAMBDA sev : sev \notin {"info", "none"})
                    info == SelectSeq(JhoveEvaluated.messages, LAMBDA sev : sev = "info")
                IN  /\ call.result = Returned(IF Len(severe) > 0 THEN 1 ELSE 0)
                    /\ Len(Errors(ffv.log)) = Len(severe)
                    /\ Len(JhoveInfoLines) = Len(info)

====
